---- MODULE Spec2Model ----
(***************************************************************************)
(* Verification model of the API route handlers of effective-system: the   *)
(* provider connectors (fetch-data, fetch-credentials, disconnect, OAuth   *)
(* callbacks), the S3 multipart-upload endpoints, the socket proxy, the     *)
(* extraction-run handler with its simulated job, the Notion extractor and  *)
(* the extractor page.  Each handler is one action (or one action per       *)
(* await/callback step where interleaving matters); vendor SDK outcomes     *)
(* are inputs drawn with \E.                                                 *)
(***************************************************************************)
EXTENDS Integers, Sequences, FiniteSets, TLC

(***************************************************************************)
(* Bounds                                                                    *)
(***************************************************************************)
MaxJar == 1          \* cookies in the browser's jar at the start
MaxUploads == 2      \* UploadIds S3 issues
MaxRunReqs == 1      \* POST extractors/run requests
MaxConfigs == 2      \* extraction config rows
MaxIssues == 1       \* issues a repository has
MaxExtracts == 2     \* extract-rar requests
MaxSources == 2      \* knowledge-base source rows in the store
MaxProxyReqs == 2    \* requests handled by the socket proxy

(***************************************************************************)
(* State                                                                     *)
(***************************************************************************)
VARIABLES
    cookies,     \* the cookie jar (next/headers cookies()): set of cookie names
    req,         \* the request last handled by a connector/route handler
    resp,        \* what that handler returned
    calls,       \* provider/vendor API calls made while handling it
    s3Uploads,   \* S3: multipart uploads in progress, [key, id]
    s3Objects,   \* S3: keys of completed objects
    nextUploadId,\* S3: the next UploadId it will issue
    upReq,       \* the multipart request last handled
    upResp,      \* its reply
    upSent,      \* the SDK commands the handler sent for it
    received,    \* history: multipart operations that reached this server
    proxyListeners, \* requests whose once('proxyRes') listener is on the shared proxy
    proxyReading,   \* request -> the upstream reply its listener is collecting (0: none)
    upstream,       \* request -> state of its upstream exchange
    upstreamStatus, \* request -> status code of the upstream reply (0: none yet)
    proxyMethod,    \* request -> its HTTP method
    proxyPromise,   \* request -> what handleProxy's promise resolved with
    configs,     \* table autonomis_bapps_extraction_config: sequence of rows, id = index
    configResp,  \* the response of the last POST extractors/config
    runs,        \* table autonomis_bapps_extraction_run: sequence of rows, id = index
    runPc,       \* run request -> where its handler is
    runCtx,      \* run request -> its user, the config it selected, the run it inserted
    runResp,     \* run request -> its response
    timers,      \* run id -> which setTimeout callback of the simulated job is pending
    statusLog,   \* history: run id -> the statuses its row has had, in order
    notion,      \* Notion: database id -> the entries it holds
    postgres,    \* Postgres table notion_data: rows stored by 'Save to DB'
    notionReq,   \* the Notion extractor request last handled
    notionResp,  \* its response: status and records
    token,       \* page state: the GitHub PAT typed in
    repos,       \* page state: repositories listed
    issuesByRepo,   \* page state: repo -> data.issues of the last fetch
    loadingIssues,  \* page state: repo -> flag
    savingIssues,   \* page state: repo -> flag
    pending,     \* fetches started by the page and not yet settled
    alertMsg,    \* the last alert() shown
    lastSave,    \* history: what the last click on 'Save Issues to DB' did
    fetchedEver, \* history: repos whose issues fetch has completed
    kbSources,   \* table autonmis_kb_sources: rows [id, user, conn]
    kbLinks,     \* table autonmis_kb_set_sources: the source_id of each row
    kbDocs,      \* table autonmis_kb_documents: the source_id of each row
    vectorized,  \* table autonomis_user_database: connection id -> is_vectorized
    resetPc,     \* reset-kb-state: where the handler is
    resetCtx,    \* reset-kb-state: its locals, and the history of the request
    resetResp,   \* reset-kb-state: its response
    bucket,      \* S3 bucket AWS_S3_BUCKET_NAME: key -> content, "none" when no object
    renamePc,    \* rename-file: where the handler is
    renameCtx,   \* rename-file: its locals, and the history of the request
    renameResp,  \* rename-file: its response
    tmpDirs,  \* extract-rar: the temporary directories that exist
    extractCount,  \* extract-rar: requests received
    extractPc,  \* extract-rar: where the handler is
    extractCtx,  \* extract-rar: its locals, and the history of the request
    extractResp, \* extract-rar: its response
    listBucket,  \* S3 bucket AWS_S3_BUCKET_NAME as the listing handlers see it: its keys
    listReq,  \* listing handlers: the last request
    listResp,  \* listing handlers: its response
    listCalls, \* listing handlers: ListObjectsV2 calls the last request sent
    statusPc,  \* backend-status: where the handler is
    statusReq,  \* backend-status: what each health request ends with
    statusChecks,  \* backend-status: the promise of each checkServiceHealth call
    statusOrder,  \* backend-status: history, the order the checks finished in
    statusResp, \* backend-status: its response
    cbJar,  \* OAuth callbacks: the cookies of the browser
    cbRows,  \* OAuth callbacks: table autonomis_user_database, the connection rows
    cbReq,  \* OAuth callbacks: the last request
    cbSet,  \* OAuth callbacks: the cookies the last request passed to cookieStore.set
    cbResp  \* OAuth callbacks: its response

routeVars == <<cookies, req, resp, calls>>
uploadVars == <<s3Uploads, s3Objects, nextUploadId, upReq, upResp, upSent, received>>

proxyVars == <<proxyListeners, proxyReading, upstream, upstreamStatus, proxyMethod,
               proxyPromise>>

runVars == <<configs, configResp, runs, runPc, runCtx, runResp, timers, statusLog>>

notionVars == <<notion, postgres, notionReq, notionResp>>
pageVars == <<token, repos, issuesByRepo, loadingIssues, savingIssues, pending, alertMsg,
              lastSave, fetchedEver>>

kbVars == <<kbSources, kbLinks, kbDocs, vectorized, resetPc, resetCtx, resetResp>>

renameVars == <<bucket, renamePc, renameCtx, renameResp>>

extractVars == <<tmpDirs, extractCount, extractPc, extractCtx, extractResp>>

listVars == <<listBucket, listReq, listResp, listCalls>>

statusVars == <<statusPc, statusReq, statusChecks, statusOrder, statusResp>>

callbackVars == <<cbJar, cbRows, cbReq, cbSet, cbResp>>

vars == <<routeVars, uploadVars, proxyVars, runVars, notionVars, pageVars, kbVars, renameVars, extractVars, listVars, statusVars, callbackVars>>

\* Everything but one group of handlers' state.
notRoutes == <<uploadVars, proxyVars, runVars, notionVars, pageVars, kbVars, renameVars, extractVars, listVars, statusVars, callbackVars>>
notUpload == <<routeVars, proxyVars, runVars, notionVars, pageVars, kbVars, renameVars, extractVars, listVars, statusVars, callbackVars>>
notProxy == <<routeVars, uploadVars, runVars, notionVars, pageVars, kbVars, renameVars, extractVars, listVars, statusVars, callbackVars>>
notRun == <<routeVars, uploadVars, proxyVars, notionVars, pageVars, kbVars, renameVars, extractVars, listVars, statusVars, callbackVars>>
notNotion == <<routeVars, uploadVars, proxyVars, runVars, pageVars, kbVars, renameVars, extractVars, listVars, statusVars, callbackVars>>
notPage == <<routeVars, uploadVars, proxyVars, runVars, notionVars, kbVars, renameVars, extractVars, listVars, statusVars, callbackVars>>
notKb == <<routeVars, uploadVars, proxyVars, runVars, notionVars, pageVars, renameVars, extractVars, listVars, statusVars, callbackVars>>
notRename == <<routeVars, uploadVars, proxyVars, runVars, notionVars, pageVars, kbVars, extractVars, listVars, statusVars, callbackVars>>
notExtract == <<routeVars, uploadVars, proxyVars, runVars, notionVars, pageVars, kbVars, renameVars, listVars, statusVars, callbackVars>>
notList == <<routeVars, uploadVars, proxyVars, runVars, notionVars, pageVars, kbVars, renameVars, extractVars, statusVars, callbackVars>>
notStatus == <<routeVars, uploadVars, proxyVars, runVars, notionVars, pageVars, kbVars, renameVars, extractVars, listVars, callbackVars>>
notCallback == <<routeVars, uploadVars, proxyVars, runVars, notionVars, pageVars, kbVars, renameVars, extractVars, listVars, statusVars>>

(***************************************************************************)
(* Responses.  Response.json(body) with no init has status 200.             *)
(***************************************************************************)
DefaultStatus == 200

\* A response object returned by a handler.
Resp(route, status, isError, success, body) ==
    [route |-> route, returned |-> TRUE, status |-> status, error |-> isError,
     success |-> success, body |-> body]

\* The handler function ran to its end without a return statement.
Undefined(route) ==
    [route |-> route, returned |-> FALSE, status |-> 0, error |-> FALSE,
     success |-> "absent", body |-> "undefined"]

NoRequest == [route |-> "none"]

Providers == {"salesforce", "hubspot", "zoho", "mixpanel", "googleanalytics4", "airtable"}

\* Values of the `app` query parameter: each provider, an unknown name, no value.
AppValues == Providers \cup {"unknown", "null"}

CookieNames ==
    {"sf_access_token", "sf_instance_url", "sf_refresh_token",
     "hs_access_token", "hs_refresh_token",
     "zoho_access_token", "zoho_refresh_token",
     "mixpanel_username", "mixpanel_secret",
     "ga_4_access_token", "ga_4_refresh_token",
     "airtable_access_token", "airtable_refresh_token"}

\* getAutonomisUser(): data present, data absent, or the call throws.
UserOutcomes == {"user", "none", "throws"}

\* Outcome of a vendor/provider API call.
VendorOutcomes == {"ok", "fail"}

(***************************************************************************)
(* fetch-data GET                                                            *)
(***************************************************************************)
FetchDataSalesforce(jar, vendor) ==
    IF ~("sf_access_token" \in jar) \/ ~("sf_instance_url" \in jar)
    THEN [resp |-> Resp("fetch-data", 401, TRUE, "false", "Not authenticated"),
          calls |-> {}]
    ELSE IF vendor = "ok"
         THEN [resp |-> Resp("fetch-data", DefaultStatus, FALSE, "absent", "data"),
               calls |-> {"salesforce.sobjects"}]
         ELSE [resp |-> Resp("fetch-data", DefaultStatus, TRUE, "absent",
                             "Error while fetching your salesforce objects"),
               calls |-> {"salesforce.sobjects"}]

\* hubspotAPI.fetchProperties() is called without await: a failure that
\* arrives as a rejected promise ("fail") is not seen by the try block, one
\* thrown synchronously ("throws") is.
FetchDataHubspot(jar, vendor) ==
    IF ~("hs_access_token" \in jar)
    THEN [resp |-> Resp("fetch-data", 401, TRUE, "false", "Not authenticated"),
          calls |-> {}]
    ELSE IF ~("hs_refresh_token" \in jar)
    THEN [resp |-> Resp("fetch-data", 401, TRUE, "false", "Not authenticated"),
          calls |-> {}]
    ELSE IF vendor = "throws"
         THEN [resp |-> Resp("fetch-data", 402, TRUE, "false",
                             "Error while accessing HubSpot API"),
               calls |-> {"hubspot.fetchProperties"}]
         ELSE [resp |-> Resp("fetch-data", 200, FALSE, "true", "data"),
               calls |-> {"hubspot.fetchProperties"}]

FetchDataZoho(jar, vendor) ==
    IF vendor = "ok"
    THEN [resp |-> Resp("fetch-data", 200, FALSE, "true", "data"),
          calls |-> {"zoho.modules"}]
    ELSE [resp |-> Resp("fetch-data", 400, TRUE, "false",
                        "Error while accessing Zoho API"),
          calls |-> {"zoho.modules"}]

FetchDataMixpanel(jar) ==
    IF ~("mixpanel_secret" \in jar) /\ ~("mixpanel_username" \in jar)
    THEN [resp |-> Resp("fetch-data", 401, TRUE, "false", "Not authenticated"),
          calls |-> {}]
    ELSE [resp |-> Resp("fetch-data", 200, FALSE, "true", "data"), calls |-> {}]

FetchDataGA4(jar) ==
    IF ~("ga_4_access_token" \in jar)
    THEN [resp |-> Resp("fetch-data", 401, TRUE, "false", "Not authenticated"),
          calls |-> {}]
    ELSE [resp |-> Resp("fetch-data", 200, FALSE, "true", "data"), calls |-> {}]

FetchDataAirtable(jar) ==
    IF ~("airtable_access_token" \in jar)
    THEN [resp |-> Resp("fetch-data", 401, TRUE, "false", "Not authenticated"),
          calls |-> {}]
    ELSE [resp |-> Resp("fetch-data", 200, FALSE, "true", "data"), calls |-> {}]

FetchDataGET(user, app, jar, vendor) ==
    IF user = "throws"
    THEN [resp |-> Resp("fetch-data", DefaultStatus, TRUE, "absent",
                        "Could not fetch the objects"),
          calls |-> {}]
    ELSE IF user = "none"
    THEN [resp |-> Resp("fetch-data", 400, TRUE, "absent", "Invalid request"),
          calls |-> {}]
    ELSE CASE app = "salesforce" -> FetchDataSalesforce(jar, vendor)
           [] app = "hubspot" -> FetchDataHubspot(jar, vendor)
           [] app = "zoho" -> FetchDataZoho(jar, vendor)
           [] app = "mixpanel" -> FetchDataMixpanel(jar)
           [] app = "googleanalytics4" -> FetchDataGA4(jar)
           [] app = "airtable" -> FetchDataAirtable(jar)
           [] OTHER -> [resp |-> Undefined("fetch-data"), calls |-> {}]

\* Vendor outcomes a branch of fetch-data can meet.
FetchDataVendor(app) ==
    CASE app = "hubspot" -> {"ok", "fail", "throws"}
      [] app \in {"salesforce", "zoho"} -> VendorOutcomes
      [] OTHER -> {"ok"}

FetchData ==
    \E user \in UserOutcomes, app \in AppValues :
      \E vendor \in FetchDataVendor(app) :
        LET r == FetchDataGET(user, app, cookies, vendor) IN
        /\ req' = [route |-> "fetch-data", user |-> user, app |-> app,
                   jar |-> cookies, vendor |-> vendor]
        /\ resp' = r.resp
        /\ calls' = r.calls
        /\ UNCHANGED <<cookies, notRoutes>>

(***************************************************************************)
(* fetch-credentials GET.  The handler has no try around getAutonomisUser.   *)
(***************************************************************************)
\* The handler function threw: nothing was returned to the framework.
Threw(route) ==
    [route |-> route, returned |-> FALSE, status |-> 0, error |-> FALSE,
     success |-> "absent", body |-> "threw"]

NotAuthenticated(route) == Resp(route, 401, TRUE, "false", "Not authenticated")

CredentialsSalesforce(jar, vendor) ==
    IF ~("sf_access_token" \in jar) \/ ~("sf_instance_url" \in jar)
    THEN [resp |-> NotAuthenticated("fetch-credentials"), calls |-> {}]
    ELSE IF vendor = "ok"
         THEN [resp |-> Resp("fetch-credentials", DefaultStatus, FALSE, "absent", "tokens"),
               calls |-> {"salesforce.userinfo"}]
         ELSE [resp |-> Resp("fetch-credentials", 401, TRUE, "absent",
                             "Error while fetching your salesforce credentials"),
               calls |-> {"salesforce.userinfo"}]

CredentialsHubspot(jar, vendor) ==
    IF ~("hs_access_token" \in jar)
    THEN [resp |-> NotAuthenticated("fetch-credentials"), calls |-> {}]
    ELSE IF vendor = "ok"
         THEN [resp |-> Resp("fetch-credentials", 200, FALSE, "absent", "tokens"),
               calls |-> {"hubspot.api-usage"}]
         ELSE [resp |-> Resp("fetch-credentials", 401, TRUE, "absent",
                             "Error while fetching your daily limit of hubspot"),
               calls |-> {"hubspot.api-usage"}]

CredentialsMixpanel(jar, vendor2, before) ==
    IF ~("mixpanel_username" \in jar)
    THEN [resp |-> NotAuthenticated("fetch-credentials"), calls |-> before]
    ELSE IF vendor2 = "ok"
         THEN [resp |-> Resp("fetch-credentials", 200, FALSE, "absent", "tokens"),
               calls |-> before \cup {"axios.get('')"}]
         ELSE [resp |-> Resp("fetch-credentials", 401, TRUE, "absent",
                             "Error while fetching your zoho's users"),
               calls |-> before \cup {"axios.get('')"}]

\* When the Zoho call answers without data ("empty") no return is reached in
\* the try block and control falls through to case 'mixpanel'.
CredentialsZoho(jar, vendor, vendor2) ==
    IF ~("zoho_access_token" \in jar)
    THEN [resp |-> NotAuthenticated("fetch-credentials"), calls |-> {}]
    ELSE CASE vendor = "ok" ->
                [resp |-> Resp("fetch-credentials", 200, FALSE, "absent", "tokens"),
                 calls |-> {"zoho.users-count"}]
           [] vendor = "empty" ->
                CredentialsMixpanel(jar, vendor2, {"zoho.users-count"})
           [] OTHER ->
                [resp |-> Resp("fetch-credentials", 401, TRUE, "absent",
                               "Error while fetching your zoho's users"),
                 calls |-> {"zoho.users-count"}]

CredentialsGA4(jar, vendor) ==
    IF ~("ga_4_access_token" \in jar)
    THEN [resp |-> NotAuthenticated("fetch-credentials"), calls |-> {}]
    ELSE IF vendor = "ok"
         THEN [resp |-> Resp("fetch-credentials", 201, FALSE, "absent", "tokens"),
               calls |-> {"ga4.metadata"}]
         ELSE [resp |-> Resp("fetch-credentials", 401, TRUE, "absent",
                             "Error while fetching your Google Analytics Data"),
               calls |-> {"ga4.metadata"}]

CredentialsAirtable(jar, vendor) ==
    IF ~("airtable_access_token" \in jar) /\ ~("airtable_refresh_token" \in jar)
    THEN [resp |-> NotAuthenticated("fetch-credentials"), calls |-> {}]
    ELSE IF vendor = "ok"
         THEN [resp |-> Resp("fetch-credentials", 201, FALSE, "absent", "tokens"),
               calls |-> {"airtable.bases"}]
         ELSE [resp |-> Resp("fetch-credentials", 401, TRUE, "absent",
                             "Error while fetching your Airtable Data"),
               calls |-> {"airtable.bases"}]

CredentialsGET(user, app, jar, vendor, vendor2) ==
    IF user = "throws"
    THEN [resp |-> Threw("fetch-credentials"), calls |-> {}]
    ELSE IF user = "none"
    THEN [resp |-> Resp("fetch-credentials", 400, TRUE, "absent", "Invalid request"),
          calls |-> {}]
    ELSE CASE app = "salesforce" -> CredentialsSalesforce(jar, vendor)
           [] app = "hubspot" -> CredentialsHubspot(jar, vendor)
           [] app = "zoho" -> CredentialsZoho(jar, vendor, vendor2)
           [] app = "mixpanel" -> CredentialsMixpanel(jar, vendor2, {})
           [] app = "googleanalytics4" -> CredentialsGA4(jar, vendor)
           [] app = "airtable" -> CredentialsAirtable(jar, vendor)
           [] OTHER -> [resp |-> Resp("fetch-credentials", 400, TRUE, "absent",
                                      "Wrong data source."),
                        calls |-> {}]

CredentialsVendor(app) ==
    CASE app = "zoho" -> {"ok", "fail", "empty"}
      [] app \in {"salesforce", "hubspot", "googleanalytics4", "airtable"} -> VendorOutcomes
      [] OTHER -> {"ok"}

CredentialsVendor2(app) ==
    IF app \in {"zoho", "mixpanel"} THEN VendorOutcomes ELSE {"ok"}

FetchCredentials ==
    \E user \in UserOutcomes, app \in AppValues :
      \E vendor \in CredentialsVendor(app), vendor2 \in CredentialsVendor2(app) :
        LET r == CredentialsGET(user, app, cookies, vendor, vendor2) IN
        /\ req' = [route |-> "fetch-credentials", user |-> user, app |-> app,
                   jar |-> cookies, vendor |-> vendor]
        /\ resp' = r.resp
        /\ calls' = r.calls
        /\ UNCHANGED <<cookies, notRoutes>>

(***************************************************************************)
(* disconnect GET                                                            *)
(***************************************************************************)
\* The cookie names each case of the switch deletes.
DisconnectDeletes(app) ==
    CASE app = "salesforce" -> {"sf_access_token", "sf_instance_token"}
      [] app = "hubspot" -> {"hs_access_token", "hs_refresh_token"}
      [] app = "zoho" -> {"zoho_access_token", "zoho_refresh_token"}
      [] app = "googleanalytics4" -> {"ga_4_access_token", "ga_4_refresh_token"}
      [] app = "airtable" -> {"airtable_access_token", "airtable_refresh_token"}
      [] OTHER -> {}

DisconnectCases == {"salesforce", "hubspot", "zoho", "googleanalytics4", "airtable"}

DisconnectGET(user, app, jar) ==
    IF user = "throws"
    THEN [resp |-> Resp("disconnect", DefaultStatus, TRUE, "absent", "Could not disconnect"),
          jar |-> jar]
    ELSE IF user = "none"
    THEN [resp |-> Resp("disconnect", 400, TRUE, "absent", "Invalid request"),
          jar |-> jar]
    ELSE IF app \in DisconnectCases
    THEN [resp |-> Resp("disconnect", DefaultStatus, FALSE, "absent", "disconnected"),
          jar |-> jar \ DisconnectDeletes(app)]
    ELSE [resp |-> Undefined("disconnect"), jar |-> jar]

Disconnect ==
    \E user \in UserOutcomes, app \in AppValues :
        LET r == DisconnectGET(user, app, cookies) IN
        /\ req' = [route |-> "disconnect", user |-> user, app |-> app,
                   jar |-> cookies, vendor |-> "ok"]
        /\ resp' = r.resp
        /\ cookies' = r.jar
        /\ calls' = {}
        /\ UNCHANGED notRoutes

(***************************************************************************)
(* OAuth callback GET (Salesforce)                                           *)
(***************************************************************************)
SalesforceCookies == {"sf_access_token", "sf_refresh_token", "sf_instance_url"}

SalesforceCallbackGET(user, code, jar, vendor) ==
    IF user = "throws"
    THEN [resp |-> Threw("callback/salesforce"), jar |-> jar, calls |-> {}]
    ELSE IF user = "none"
    THEN [resp |-> Resp("callback/salesforce", 400, TRUE, "absent", "Invalid request"),
          jar |-> jar, calls |-> {}]
    ELSE IF ~code
    THEN [resp |-> Resp("callback/salesforce", 405, TRUE, "absent",
                        "Authorization code is missing."),
          jar |-> jar, calls |-> {}]
    ELSE IF vendor = "ok"
    THEN [resp |-> Resp("callback/salesforce", DefaultStatus, FALSE, "absent", "suceess"),
          jar |-> jar \cup SalesforceCookies, calls |-> {"salesforce.token"}]
    ELSE [resp |-> Resp("callback/salesforce", 500, TRUE, "absent",
                        "Failed to authenticate with Salesforce."),
          jar |-> jar, calls |-> {"salesforce.token"}]

SalesforceCallback ==
    \E user \in UserOutcomes, code \in BOOLEAN, vendor \in VendorOutcomes :
        LET r == SalesforceCallbackGET(user, code, cookies, vendor) IN
        /\ req' = [route |-> "callback/salesforce", user |-> user,
                   app |-> IF code THEN "code" ELSE "null",
                   jar |-> cookies, vendor |-> vendor]
        /\ resp' = r.resp
        /\ cookies' = r.jar
        /\ calls' = r.calls
        /\ UNCHANGED notRoutes

(***************************************************************************)
(* connect/add-to-kb POST                                                    *)
(***************************************************************************)
\* What addConnectionToKnowledgeBase can give back.
AddToKbResults == {"success", "existing", "failed", "throws"}

AddToKbPOST(fields, result) ==
    IF ~fields
    THEN Resp("connect/add-to-kb", 400, TRUE, "absent",
              "Missing required fields: connectionId and userId")
    ELSE CASE result = "success" ->
                Resp("connect/add-to-kb", DefaultStatus, FALSE, "true",
                     "Successfully added to knowledge base")
           [] result = "existing" ->
                Resp("connect/add-to-kb", 409, TRUE, "false", "result.error")
           [] result = "failed" ->
                Resp("connect/add-to-kb", 500, TRUE, "false", "result.error")
           [] OTHER ->
                Resp("connect/add-to-kb", 500, TRUE, "false", "error.message")

AddToKb ==
    \E fields \in BOOLEAN, result \in AddToKbResults :
        /\ req' = [route |-> "connect/add-to-kb", user |-> "user",
                   app |-> IF fields THEN "fields" ELSE "null",
                   jar |-> cookies, vendor |-> result]
        /\ resp' = AddToKbPOST(fields, result)
        /\ calls' = IF fields THEN {"addConnectionToKnowledgeBase"} ELSE {}
        /\ UNCHANGED <<cookies, notRoutes>>

(***************************************************************************)
(* JSON body fields as JavaScript values, and `!x`.                          *)
(***************************************************************************)
JsUndefined == [t |-> "undefined", v |-> "undefined"]   \* v: how a template string renders it
JsString(str) == [t |-> "string", v |-> str]
JsNumber(n) == [t |-> "number", v |-> n]
JsArray(n) == [t |-> "array", v |-> n]        \* an array of n elements
JsId(n) == [t |-> "id", v |-> n]              \* the n-th UploadId S3 issued

\* JavaScript truthiness: undefined, '' and 0 are falsy, every array is truthy.
Truthy(x) ==
    CASE x.t = "undefined" -> FALSE
      [] x.t = "string" -> x.v # ""
      [] x.t = "number" -> x.v # 0
      [] OTHER -> TRUE

(***************************************************************************)
(* S3 multipart upload: initiate, part URL, complete                         *)
(***************************************************************************)
\* Key: `${userId}/${fileName}`
UploadKey(userId, fileName) == <<userId.v, fileName.v>>

MissingFields == Resp("s3/multipart", 400, TRUE, "absent", "Missing required fields")

\* POST initiate: the reply and the SDK commands sent, given S3's answer.
InitiatePOST(parse, fileName, userId, s3) ==
    IF ~parse
    THEN [resp |-> Resp("s3/initiate-multipart", 500, TRUE, "absent",
                        "Error initiating multipart upload"),
          sent |-> <<>>]
    ELSE IF ~Truthy(fileName) \/ ~Truthy(userId)
    THEN [resp |-> [MissingFields EXCEPT !.route = "s3/initiate-multipart"],
          sent |-> <<>>]
    ELSE IF s3 = "ok"
    THEN [resp |-> Resp("s3/initiate-multipart", DefaultStatus, FALSE, "absent", "uploadId"),
          sent |-> << [cmd |-> "CreateMultipartUpload",
                       key |-> UploadKey(userId, fileName)] >>]
    ELSE [resp |-> Resp("s3/initiate-multipart", 500, TRUE, "absent",
                        "Error initiating multipart upload"),
          sent |-> << [cmd |-> "CreateMultipartUpload",
                       key |-> UploadKey(userId, fileName)] >>]

\* A part-URL handler that keeps a server-side record of initiated uploads
\* and refuses a part of an upload it has not seen initiated.
PartUrlPOST_Recorded(parse, fileName, userId, uploadId, partNumber, sign) ==
    IF ~parse
    THEN [resp |-> Resp("s3/part-url", 500, TRUE, "absent",
                        "Error generating pre-signed URL"),
          sent |-> <<>>]
    ELSE IF ~Truthy(fileName) \/ ~Truthy(userId) \/ ~Truthy(uploadId) \/ ~Truthy(partNumber)
            \/ "initiate" \notin received
    THEN [resp |-> [MissingFields EXCEPT !.route = "s3/part-url"], sent |-> <<>>]
    ELSE IF sign = "ok"
    THEN [resp |-> Resp("s3/part-url", DefaultStatus, FALSE, "absent", "url"),
          sent |-> << [cmd |-> "getSignedUrl(UploadPart)",
                       key |-> UploadKey(userId, fileName)] >>]
    ELSE [resp |-> Resp("s3/part-url", 500, TRUE, "absent",
                        "Error generating pre-signed URL"),
          sent |-> << [cmd |-> "getSignedUrl(UploadPart)",
                       key |-> UploadKey(userId, fileName)] >>]

\* POST part URL: getSignedUrl signs an UploadPartCommand locally.
PartUrlPOST(parse, fileName, userId, uploadId, partNumber, sign) ==
    IF ~parse
    THEN [resp |-> Resp("s3/part-url", 500, TRUE, "absent",
                        "Error generating pre-signed URL"),
          sent |-> <<>>]
    ELSE IF ~Truthy(fileName) \/ ~Truthy(userId) \/ ~Truthy(uploadId) \/ ~Truthy(partNumber)
    THEN [resp |-> [MissingFields EXCEPT !.route = "s3/part-url"], sent |-> <<>>]
    ELSE IF sign = "ok"
    THEN [resp |-> Resp("s3/part-url", DefaultStatus, FALSE, "absent", "url"),
          sent |-> << [cmd |-> "getSignedUrl(UploadPart)",
                       key |-> UploadKey(userId, fileName)] >>]
    ELSE [resp |-> Resp("s3/part-url", 500, TRUE, "absent",
                        "Error generating pre-signed URL"),
          sent |-> << [cmd |-> "getSignedUrl(UploadPart)",
                       key |-> UploadKey(userId, fileName)] >>]

\* POST complete
CompletePOST(parse, uploadId, parts, fileName, userId, s3) ==
    IF ~parse
    THEN [resp |-> Resp("s3/complete-multipart", 500, TRUE, "absent",
                        "Error completing multipart upload"),
          sent |-> <<>>]
    ELSE IF ~Truthy(uploadId) \/ ~Truthy(parts) \/ ~Truthy(fileName) \/ ~Truthy(userId)
    THEN [resp |-> [MissingFields EXCEPT !.route = "s3/complete-multipart"],
          sent |-> <<>>]
    ELSE IF s3 = "ok"
    THEN [resp |-> Resp("s3/complete-multipart", DefaultStatus, FALSE, "absent",
                        "success completion"),
          sent |-> << [cmd |-> "CompleteMultipartUpload",
                       key |-> UploadKey(userId, fileName)] >>]
    ELSE [resp |-> Resp("s3/complete-multipart", 500, TRUE, "absent",
                        "Error completing multipart upload"),
          sent |-> << [cmd |-> "CompleteMultipartUpload",
                       key |-> UploadKey(userId, fileName)] >>]

FileNameValues == {JsUndefined, JsString(""), JsString("f1")}
UserIdValues == {JsUndefined, JsString("u1")}
UploadIdValues == {JsUndefined, JsString("")} \cup {JsId(n) : n \in 1..MaxUploads}
PartNumberValues == {JsUndefined, JsNumber(0), JsNumber(1)}
PartsValues == {JsUndefined, JsArray(0), JsArray(1)}

\* A body req.json() cannot parse carries no fields.
NoFields(fields) == \A i \in 1..Len(fields) : fields[i] = JsUndefined

UploadRequest(op, parse, fileName, userId, uploadId, partNumber, parts, answer) ==
    [op |-> op, parse |-> parse, fileName |-> fileName, userId |-> userId,
     uploadId |-> uploadId, partNumber |-> partNumber, parts |-> parts,
     answer |-> answer]

\* CreateMultipartUpload answers with a fresh UploadId, or fails.
InitiateUpload ==
    \E parse \in BOOLEAN, fileName \in FileNameValues, userId \in UserIdValues,
       s3 \in VendorOutcomes :
        LET r == InitiatePOST(parse, fileName, userId, s3)
            created == r.sent # <<>> /\ s3 = "ok" IN
        /\ ~parse => NoFields(<<fileName, userId>>) /\ s3 = "fail"
        /\ s3 = "ok" => nextUploadId <= MaxUploads
        /\ upReq' = UploadRequest("initiate", parse, fileName, userId, JsUndefined,
                                  JsUndefined, JsUndefined, s3)
        /\ upResp' = r.resp
        /\ upSent' = r.sent
        /\ received' = received \cup {"initiate"}
        /\ s3Uploads' = IF created
                        THEN s3Uploads \cup {[key |-> UploadKey(userId, fileName),
                                              id |-> nextUploadId]}
                        ELSE s3Uploads
        /\ nextUploadId' = IF created THEN nextUploadId + 1 ELSE nextUploadId
        /\ UNCHANGED <<s3Objects, notUpload>>

PartUrl ==
    \E parse \in BOOLEAN, fileName \in FileNameValues, userId \in UserIdValues,
       uploadId \in UploadIdValues, partNumber \in PartNumberValues,
       sign \in VendorOutcomes :
        LET r == PartUrlPOST(parse, fileName, userId, uploadId, partNumber, sign) IN
        /\ ~parse => NoFields(<<fileName, userId, uploadId, partNumber>>) /\ sign = "fail"
        /\ upReq' = UploadRequest("part", parse, fileName, userId, uploadId,
                                  partNumber, JsUndefined, sign)
        /\ upResp' = r.resp
        /\ upSent' = r.sent
        /\ received' = received \cup {"part"}
        /\ UNCHANGED <<s3Uploads, s3Objects, nextUploadId, notUpload>>

\* S3 completes an upload only if it is in progress under that key and id and
\* the part list is not empty; it may fail for its own reasons as well.
S3CanComplete(uploadId, parts, fileName, userId) ==
    /\ uploadId.t = "id"
    /\ [key |-> UploadKey(userId, fileName), id |-> uploadId.v] \in s3Uploads
    /\ parts.t = "array" /\ parts.v > 0

CompleteUpload ==
    \E parse \in BOOLEAN, fileName \in FileNameValues, userId \in UserIdValues,
       uploadId \in UploadIdValues, parts \in PartsValues, s3 \in VendorOutcomes :
        LET r == CompletePOST(parse, uploadId, parts, fileName, userId, s3)
            done == r.sent # <<>> /\ s3 = "ok" IN
        /\ ~parse => NoFields(<<fileName, userId, uploadId, parts>>) /\ s3 = "fail"
        /\ s3 = "ok" => S3CanComplete(uploadId, parts, fileName, userId)
        /\ upReq' = UploadRequest("complete", parse, fileName, userId, uploadId,
                                  JsUndefined, parts, s3)
        /\ upResp' = r.resp
        /\ upSent' = r.sent
        /\ received' = received \cup {"complete"}
        /\ s3Uploads' = IF done
                        THEN s3Uploads \ {[key |-> UploadKey(userId, fileName),
                                           id |-> uploadId.v]}
                        ELSE s3Uploads
        /\ s3Objects' = IF done THEN s3Objects \cup {UploadKey(userId, fileName)}
                        ELSE s3Objects
        /\ UNCHANGED <<nextUploadId, notUpload>>

UploadAtRest ==
    /\ s3Objects = {}
    /\ upReq = [op |-> "none"]
    /\ upResp = Undefined("none")
    /\ upSent = <<>>
    /\ received = {}

\* S3 is shared with other writers: an upload may already be in progress.
InitUpload ==
    /\ \/ s3Uploads = {} /\ nextUploadId = 1
       \/ s3Uploads = {[key |-> <<"u1", "f1">>, id |-> 1]} /\ nextUploadId = 2
    /\ UploadAtRest

IdleUpload ==
    /\ s3Uploads = {} /\ nextUploadId = 1
    /\ UploadAtRest

NextUpload ==
    \/ InitiateUpload
    \/ PartUrl
    \/ CompleteUpload

(***************************************************************************)
(* Socket proxy: handleProxy on the module-level http-proxy server           *)
(***************************************************************************)
ProxyReqs == 1..MaxProxyReqs

\* Status codes the upstream server answers with.
UpstreamStatuses == {200, 404}

Unresolved == [resolved |-> FALSE, status |-> 0, from |-> 0]

\* resolve(): settles the promise the first time, does nothing afterwards.
Resolve(promise, value) == IF promise.resolved THEN promise ELSE value

\* GET/POST -> handleProxy: proxy.web() sends the request upstream and
\* proxy.once('proxyRes', ...) adds a listener to the shared proxy.
HandleProxy(r) ==
    /\ upstream[r] = "idle"
    /\ \E m \in {"GET", "POST"} : proxyMethod' = [proxyMethod EXCEPT ![r] = m]
    /\ upstream' = [upstream EXCEPT ![r] = "pending"]
    /\ proxyListeners' = proxyListeners \cup {r}
    /\ UNCHANGED <<proxyReading, proxyPromise, upstreamStatus, notProxy>>

\* The error callback of proxy.web(): resolve with the 500 'Proxy error'.
ProxyError(r) ==
    /\ upstream[r] = "pending"
    /\ upstream' = [upstream EXCEPT ![r] = "failed"]
    /\ proxyPromise' = [proxyPromise EXCEPT ![r] =
                          Resolve(@, [resolved |-> TRUE, status |-> 500, from |-> 0])]
    /\ UNCHANGED <<proxyListeners, proxyReading, proxyMethod, upstreamStatus, notProxy>>

\* The upstream reply to request r arrives: the proxy emits 'proxyRes', which
\* runs and removes every `once` listener registered on it; each starts to
\* collect the body of this reply.
ProxyRes(r) ==
    /\ upstream[r] = "pending"
    /\ upstream' = [upstream EXCEPT ![r] = "replying"]
    /\ \E st \in UpstreamStatuses :
           upstreamStatus' = [upstreamStatus EXCEPT ![r] = st]
    /\ proxyReading' = [l \in ProxyReqs |->
                          IF l \in proxyListeners THEN r ELSE proxyReading[l]]
    /\ proxyListeners' = {}
    /\ UNCHANGED <<proxyMethod, proxyPromise, notProxy>>

\* 'end' of the reply to r: every listener collecting it resolves its promise
\* with that reply's body, status and headers.
ProxyEnd(r) ==
    /\ upstream[r] = "replying"
    /\ proxyPromise' = [l \in ProxyReqs |->
                          IF proxyReading[l] = r
                          THEN Resolve(proxyPromise[l],
                                       [resolved |-> TRUE, status |-> upstreamStatus[r],
                                        from |-> r])
                          ELSE proxyPromise[l]]
    /\ proxyReading' = [l \in ProxyReqs |->
                          IF proxyReading[l] = r THEN 0 ELSE proxyReading[l]]
    /\ upstream' = [upstream EXCEPT ![r] = "ended"]
    /\ UNCHANGED <<proxyListeners, proxyMethod, upstreamStatus, notProxy>>

InitProxy ==
    /\ proxyListeners = {}
    /\ proxyReading = [r \in ProxyReqs |-> 0]
    /\ upstream = [r \in ProxyReqs |-> "idle"]
    /\ upstreamStatus = [r \in ProxyReqs |-> 0]
    /\ proxyMethod = [r \in ProxyReqs |-> "none"]
    /\ proxyPromise = [r \in ProxyReqs |-> Unresolved]

NextProxy ==
    \E r \in ProxyReqs :
        \/ HandleProxy(r)
        \/ ProxyError(r)
        \/ ProxyRes(r)
        \/ ProxyEnd(r)

(***************************************************************************)
(* extractors/config POST and extractors/run POST with its simulated job     *)
(***************************************************************************)
RunReqs == 1..MaxRunReqs
Users == {"u1", "u2"}
\* supabase.auth.getUser(): a user, or none
AuthValues == Users \cup {"none"}
\* pipeline_id of the body: 0 stands for absent (falsy)
PipelineValues == {0, 1, 2}
\* A supabase query resolves with data ("ok") or with an error object
\* ("error"); the timer callbacks also guard against a thrown exception.
DbOutcomes == {"ok", "error"}
UpdateOutcomes == {"ok", "error", "throws"}

NoCtx == [user |-> "none", pipeline |-> 0, config |-> 0, run |-> 0]

\* POST extractors/config: insert a row for the caller.
\* JSON null, and the values of `config` in a request body
JsNull == [t |-> "null", v |-> "null"]
ConfigValues == {JsUndefined, JsNull, JsString("")}

\* JSON.stringify(value): the text as its tokens; undefined for undefined.
JsonStringify(value) ==
    CASE value.t = "undefined" -> JsUndefined
      [] value.t = "null" -> [t |-> "text", v |-> <<"null">>]
      [] OTHER -> [t |-> "text", v |-> <<"quote", value.v, "quote">>]

\* JSON.parse(text)
JsonParse(text) ==
    IF Len(text.v) = 3 /\ text.v[1] = "quote" /\ text.v[3] = "quote"
    THEN JsString(text.v[2])
    ELSE JsNull

\* The column written by an insert: a key whose value is undefined is left
\* out of the request body, and the column is NULL.
StoredColumn(value) == IF value.t = "undefined" THEN [t |-> "null", v |-> <<>>] ELSE value

\* `data.config` as a condition: NULL and the empty text are falsy.
ColumnTruthy(column) == column.t = "text" /\ Len(column.v) > 0

\* A config row as GET returns it: the config parsed when it is truthy.
ReturnedConfig(row) ==
    IF ColumnTruthy(row.config) THEN JsonParse(row.config) ELSE JsNull

\* POST extractors/config, the body's config drawn from `values`
ConfigPOST(values) ==
    \E user \in AuthValues, pipeline \in {1, 2}, db \in DbOutcomes, config \in values :
        /\ db = "ok" => Len(configs) < MaxConfigs
        /\ IF user = "none"
           THEN /\ configResp' = Resp("extractors/config", 401, TRUE, "false",
                                      "Unauthorized")
                /\ UNCHANGED configs
           ELSE IF db = "error"
           THEN /\ configResp' = Resp("extractors/config", 500, TRUE, "false",
                                      "Failed to create extraction configuration")
                /\ UNCHANGED configs
           ELSE /\ configResp' = Resp("extractors/config", DefaultStatus, FALSE, "true",
                                      "id")
                /\ configs' = Append(configs,
                                     [pipeline_id |-> pipeline, user_id |-> user,
                                      config |-> StoredColumn(JsonStringify(config)),
                                      posted |-> config])
        /\ UNCHANGED <<runs, runPc, runCtx, runResp, timers, statusLog, notRun>>

\* A lookup that leaves out the user_id filter.
LatestConfig_AnyUser(user, pipeline) ==
    LET match == {i \in 1..Len(configs) : configs[i].pipeline_id = pipeline}
    IN IF match = {} THEN 0 ELSE CHOOSE i \in match : \A j \in match : j <= i

\* .eq('pipeline_id').eq('user_id').order('created_at', desc).limit(1):
\* the id of the newest matching row, 0 when there is none (PGRST116).
LatestConfig(user, pipeline) ==
    LET match == {i \in 1..Len(configs) :
                     configs[i].pipeline_id = pipeline /\ configs[i].user_id = user}
    IN IF match = {} THEN 0 ELSE CHOOSE i \in match : \A j \in match : j <= i

\* The reply of GET extractors/config: `extraction` is the id of the row
\* returned (0 for null) and `config` its config as returned.
ConfigReply(status, isError, user, pipeline, extraction, config) ==
    [route |-> "extractors/config GET", returned |-> TRUE, status |-> status,
     error |-> isError, success |-> IF isError THEN "false" ELSE "true",
     body |-> "extraction", user |-> user, pipeline |-> pipeline,
     extraction |-> extraction, config |-> config]

\* A lookup that takes the oldest matching row.
ConfigGET_Oldest(user, pipeline, db) ==
    LET match == {i \in 1..Len(configs) :
                     configs[i].pipeline_id = pipeline /\ configs[i].user_id = user}
        row == IF match = {} THEN 0 ELSE CHOOSE i \in match : \A j \in match : i <= j
    IN  CASE user = "none" -> ConfigReply(401, TRUE, user, pipeline, 0, JsNull)
          [] pipeline = 0 -> ConfigReply(400, TRUE, user, pipeline, 0, JsNull)
          [] db = "error" -> ConfigReply(500, TRUE, user, pipeline, 0, JsNull)
          [] row = 0 -> ConfigReply(DefaultStatus, FALSE, user, pipeline, 0, JsNull)
          [] OTHER -> ConfigReply(DefaultStatus, FALSE, user, pipeline, row,
                                  ReturnedConfig(configs[row]))

\* GET extractors/config
ConfigGET(user, pipeline, db) ==
    LET row == LatestConfig(user, pipeline)
    IN  CASE user = "none" -> ConfigReply(401, TRUE, user, pipeline, 0, JsNull)
          [] pipeline = 0 -> ConfigReply(400, TRUE, user, pipeline, 0, JsNull)
          [] db = "error" -> ConfigReply(500, TRUE, user, pipeline, 0, JsNull)
          [] row = 0 -> ConfigReply(DefaultStatus, FALSE, user, pipeline, 0, JsNull)
          [] OTHER -> ConfigReply(DefaultStatus, FALSE, user, pipeline, row,
                                  ReturnedConfig(configs[row]))

GetConfig ==
    \E user \in AuthValues, pipeline \in PipelineValues, db \in DbOutcomes :
        /\ configResp' = ConfigGET(user, pipeline, db)
        /\ UNCHANGED <<configs, runs, runPc, runCtx, runResp, timers, statusLog, notRun>>

RunUnauthorized == Resp("extractors/run", 401, TRUE, "false", "Unauthorized")
RunNoPipeline == Resp("extractors/run", 400, TRUE, "false", "Pipeline ID is required")
\* The missing configuration reported with the status PostgREST gives PGRST116.
RunNoConfig_NotAcceptable ==
    Resp("extractors/run", 406, TRUE, "false",
         "No extraction configuration found for this pipeline")

RunNoConfig == Resp("extractors/run", 404, TRUE, "false",
                    "No extraction configuration found for this pipeline")
RunFailed == Resp("extractors/run", 500, TRUE, "false", "Failed to start extraction job")
RunStarted == Resp("extractors/run", DefaultStatus, FALSE, "true", "Extraction job started")

\* A run row that is inserted as already started.
NewRunRow_Started(config, user) ==
    [config_id |-> config, user_id |-> user, status |-> "in_progress"]

\* The row inserted for a new run.
NewRunRow(config, user) == [config_id |-> config, user_id |-> user, status |-> "queued"]

\* POST extractors/run up to the config lookup.
RunBegin(q) ==
    /\ runPc[q] = "idle"
    /\ \E user \in AuthValues, pipeline \in PipelineValues, db \in DbOutcomes :
        LET cfg == LatestConfig(user, pipeline)
            answer == CASE user = "none" -> RunUnauthorized
                        [] pipeline = 0 -> RunNoPipeline
                        [] db = "error" -> RunFailed
                        [] cfg = 0 -> RunNoConfig
                        [] OTHER -> Undefined("extractors/run")
        IN /\ runCtx' = [runCtx EXCEPT ![q] = [user |-> user, pipeline |-> pipeline,
                                                   config |-> cfg, run |-> 0]]
           /\ IF answer.returned
              THEN /\ runPc' = [runPc EXCEPT ![q] = "done"]
                   /\ runResp' = [runResp EXCEPT ![q] = answer]
              ELSE /\ runPc' = [runPc EXCEPT ![q] = "insert"]
                   /\ UNCHANGED runResp
    /\ UNCHANGED <<configs, configResp, runs, timers, statusLog, notRun>>

\* The insert of the run row (.insert(...).select('id').single()).
RunInsert(q) ==
    /\ runPc[q] = "insert"
    /\ \E db \in DbOutcomes :
        IF db = "ok"
        THEN /\ runs' = Append(runs, NewRunRow(runCtx[q].config, runCtx[q].user))
             /\ statusLog' = Append(statusLog,
                                    <<NewRunRow(runCtx[q].config, runCtx[q].user).status>>)
             /\ timers' = Append(timers, "none")
             /\ runCtx' = [runCtx EXCEPT ![q].run = Len(runs) + 1]
             /\ runPc' = [runPc EXCEPT ![q] = "respond"]
             /\ UNCHANGED runResp
        ELSE /\ runPc' = [runPc EXCEPT ![q] = "done"]
             /\ runResp' = [runResp EXCEPT ![q] = RunFailed]
             /\ UNCHANGED <<runs, statusLog, timers, runCtx>>
    /\ UNCHANGED <<configs, configResp, notRun>>

\* The response returned without the timer being set.
RunRespond_NoTimer(q) ==
    /\ runPc[q] = "respond"
    /\ runResp' = [runResp EXCEPT ![q] = RunStarted]
    /\ runPc' = [runPc EXCEPT ![q] = "done"]
    /\ UNCHANGED <<configs, configResp, runs, runCtx, timers, statusLog, notRun>>

\* After the insert: setTimeout(..., 2000) and the return of the response,
\* in one synchronous stretch.
RunRespond(q) ==
    /\ runPc[q] = "respond"
    /\ timers' = [timers EXCEPT ![runCtx[q].run] = "start"]
    /\ runResp' = [runResp EXCEPT ![q] = RunStarted]
    /\ runPc' = [runPc EXCEPT ![q] = "done"]
    /\ UNCHANGED <<configs, configResp, runs, runCtx, statusLog, notRun>>

\* .update({status}).eq('id', run): the row's status when the update took.
SetStatus(run, status) == [runs EXCEPT ![run].status = status]

\* First timer callback: update to 'in_progress', then schedule the second
\* timer; a thrown exception skips the scheduling, a returned error does not.
TimerStart(run) ==
    /\ timers[run] = "start"
    /\ \E db \in UpdateOutcomes :
        /\ runs' = IF db = "ok" THEN SetStatus(run, "in_progress") ELSE runs
        /\ statusLog' = IF db = "ok"
                        THEN [statusLog EXCEPT ![run] = Append(@, "in_progress")]
                        ELSE statusLog
        /\ timers' = [timers EXCEPT ![run] = IF db = "throws" THEN "caught" ELSE "complete"]
    /\ UNCHANGED <<configs, configResp, runPc, runCtx, runResp, notRun>>

\* Second timer callback: update to 'completed'.  The timer ends "over" when
\* the update took, "failed" when it resolved with an error, "caught" when
\* it threw into the catch block.
TimerComplete(run) ==
    /\ timers[run] = "complete"
    /\ \E db \in UpdateOutcomes :
        /\ runs' = IF db = "ok" THEN SetStatus(run, "completed") ELSE runs
        /\ statusLog' = IF db = "ok"
                        THEN [statusLog EXCEPT ![run] = Append(@, "completed")]
                        ELSE statusLog
        /\ timers' = [timers EXCEPT ![run] = CASE db = "ok" -> "over"
                                                  [] db = "error" -> "failed"
                                                  [] OTHER -> "caught"]
    /\ UNCHANGED <<configs, configResp, runPc, runCtx, runResp, notRun>>

InitRun ==
    /\ configs = <<>>
    /\ configResp = Undefined("extractors/config")
    /\ runs = <<>>
    /\ runPc = [q \in RunReqs |-> "idle"]
    /\ runCtx = [q \in RunReqs |-> NoCtx]
    /\ runResp = [q \in RunReqs |-> Undefined("extractors/run")]
    /\ timers = <<>>
    /\ statusLog = <<>>

NextConfig ==
    \/ ConfigPOST(ConfigValues)
    \/ GetConfig

\* The run handler does not read the config column: one value stands for all.
NextRun ==
    \/ ConfigPOST({JsNull})
    \/ \E q \in RunReqs : RunBegin(q)
    \/ \E q \in RunReqs : RunInsert(q)
    \/ \E q \in RunReqs : RunRespond(q)
    \/ \E run \in 1..Len(runs) : TimerStart(run)
    \/ \E run \in 1..Len(runs) : TimerComplete(run)

(***************************************************************************)
(* Notion extractor: POST extractors/notion/run ('Save to DB') and           *)
(* GET extractors/notion/data ('Show Data')                                  *)
(***************************************************************************)
NotionDbs == {"d1", "d2"}
NotionEntries == {"e1", "e2"}
\* A spawned script prints JSON ("ok") or something JSON.parse rejects.
ScriptOutcomes == {"ok", "invalid"}

\* fetch_notion.py <database_id>: the entries the Notion database holds now.
FetchNotion(db) == notion[db]

\* save_to_postgres.py <table>: the table after the records on stdin are stored.
SaveToPostgres(db, records) == postgres \cup {[db |-> db, entry |-> e] : e \in records}

NotionResponse(route, status, records) ==
    [route |-> route, status |-> status, records |-> records]

\* POST extractors/notion/run
NotionRunPOST ==
    \E db \in NotionDbs \cup {"null"}, extract \in ScriptOutcomes, load \in ScriptOutcomes :
        /\ notionReq' = [op |-> "save", db |-> db, token |-> TRUE]
        /\ IF db = "null"
           THEN /\ notionResp' = NotionResponse("notion/run", 400, {})
                /\ UNCHANGED postgres
           ELSE IF extract = "invalid"
           THEN /\ notionResp' = NotionResponse("notion/run", 500, {})
                /\ UNCHANGED postgres
           ELSE IF load = "invalid"
           THEN /\ notionResp' = NotionResponse("notion/run", 500, {})
                /\ UNCHANGED postgres
           ELSE /\ notionResp' = NotionResponse("notion/run", DefaultStatus, {})
                /\ postgres' = SaveToPostgres(db, FetchNotion(db))
        /\ UNCHANGED <<notion, notNotion>>

\* GET extractors/notion/data: runs fetch_notion.py and returns what it prints.
NotionDataGET ==
    \E db \in NotionDbs \cup {"null"}, tok \in BOOLEAN, script \in ScriptOutcomes :
        /\ notionReq' = [op |-> "show", db |-> db, token |-> tok]
        /\ IF db = "null" \/ ~tok
           THEN notionResp' = NotionResponse("notion/data", 400, {})
           ELSE IF script = "invalid"
           THEN notionResp' = NotionResponse("notion/data", 500, {})
           ELSE notionResp' = NotionResponse("notion/data", DefaultStatus, FetchNotion(db))
        /\ UNCHANGED <<notion, postgres, notNotion>>

NotionAtRest ==
    /\ postgres = {}
    /\ notionReq = [op |-> "none", db |-> "null", token |-> FALSE]
    /\ notionResp = NotionResponse("none", 0, {})

InitNotion ==
    /\ notion \in [NotionDbs -> SUBSET NotionEntries]
    /\ NotionAtRest

IdleNotion ==
    /\ notion = [d \in NotionDbs |-> {}]
    /\ NotionAtRest

NextNotion ==
    \/ NotionRunPOST
    \/ NotionDataGET

(***************************************************************************)
(* Extractor page: fetchRepos, fetchIssues, saveIssues                       *)
(***************************************************************************)
Repos == {"r1", "r2"}
\* data.issues of a fetch: absent, or a list of 0..MaxIssues issues
IssuesValues == {JsUndefined} \cup {JsArray(n) : n \in 0..MaxIssues}
Flags == {"unset", "true", "false"}

NoSave == [repo |-> "none", issues |-> JsUndefined, sent |-> FALSE, alert |-> "",
           before |-> "unset", after |-> "unset"]

SetToken ==
    \E t \in {"", "pat"} :
        /\ token' = t
        /\ UNCHANGED <<repos, issuesByRepo, loadingIssues, savingIssues, pending,
                       alertMsg, lastSave, fetchedEver, notPage>>

\* fetchRepos, to its await
FetchReposStart ==
    /\ [kind |-> "repos", repo |-> "none"] \notin pending
    /\ IF token = ""
       THEN /\ alertMsg' = "Please enter your GitHub PAT."
            /\ UNCHANGED pending
       ELSE /\ pending' = pending \cup {[kind |-> "repos", repo |-> "none"]}
            /\ UNCHANGED alertMsg
    /\ UNCHANGED <<token, repos, issuesByRepo, loadingIssues, savingIssues, lastSave,
                   fetchedEver, notPage>>

\* fetchRepos, after the await: data.repos, or the catch
FetchReposDone ==
    /\ [kind |-> "repos", repo |-> "none"] \in pending
    /\ pending' = pending \ {[kind |-> "repos", repo |-> "none"]}
    /\ \/ \E listed \in SUBSET Repos : repos' = listed /\ UNCHANGED alertMsg
       \/ /\ repos' = {}
          /\ alertMsg' = "Failed to fetch repositories."
    /\ UNCHANGED <<token, issuesByRepo, loadingIssues, savingIssues, lastSave,
                   fetchedEver, notPage>>

\* fetchIssues(repo), to its await; the button is disabled while loading
FetchIssuesStart(repo) ==
    /\ repo \in repos
    /\ loadingIssues[repo] # "true"
    /\ loadingIssues' = [loadingIssues EXCEPT ![repo] = "true"]
    /\ pending' = pending \cup {[kind |-> "issues", repo |-> repo]}
    /\ UNCHANGED <<token, repos, issuesByRepo, savingIssues, alertMsg, lastSave,
                   fetchedEver, notPage>>

\* fetchIssues(repo), after the await
FetchIssuesDone(repo) ==
    /\ [kind |-> "issues", repo |-> repo] \in pending
    /\ pending' = pending \ {[kind |-> "issues", repo |-> repo]}
    /\ \/ \E issues \in IssuesValues :
            /\ issuesByRepo' = [issuesByRepo EXCEPT ![repo] = issues]
            /\ fetchedEver' = fetchedEver \cup {repo}
            /\ UNCHANGED alertMsg
       \/ /\ alertMsg' = "Failed to fetch issues"
          /\ UNCHANGED <<issuesByRepo, fetchedEver>>
    /\ loadingIssues' = [loadingIssues EXCEPT ![repo] = "false"]
    /\ UNCHANGED <<token, repos, savingIssues, lastSave, notPage>>

\* A guard that forgets the empty list.
NothingToSave_NoLength(issues) == ~Truthy(issues)

\* !issues || issues.length === 0
NothingToSave(issues) == ~Truthy(issues) \/ issues.v = 0

\* saveIssues(repo), to its await; the button is disabled while saving
SaveIssuesStart(repo) ==
    /\ repo \in repos
    /\ savingIssues[repo] # "true"
    /\ IF NothingToSave(issuesByRepo[repo])
       THEN /\ alertMsg' = "No issues to save"
            /\ UNCHANGED <<savingIssues, pending>>
       ELSE /\ savingIssues' = [savingIssues EXCEPT ![repo] = "true"]
            /\ pending' = pending \cup {[kind |-> "save", repo |-> repo]}
            /\ UNCHANGED alertMsg
    /\ lastSave' = [repo |-> repo, issues |-> issuesByRepo[repo],
                    sent |-> [kind |-> "save", repo |-> repo] \in pending',
                    alert |-> alertMsg', before |-> savingIssues[repo],
                    after |-> savingIssues'[repo]]
    /\ UNCHANGED <<token, repos, issuesByRepo, loadingIssues, fetchedEver, notPage>>

\* saveIssues(repo), after the await
SaveIssuesDone(repo) ==
    /\ [kind |-> "save", repo |-> repo] \in pending
    /\ pending' = pending \ {[kind |-> "save", repo |-> repo]}
    /\ \E msg \in {"Saved issues to DB.", "Failed to save issues to DB"} : alertMsg' = msg
    /\ savingIssues' = [savingIssues EXCEPT ![repo] = "false"]
    /\ UNCHANGED <<token, repos, issuesByRepo, loadingIssues, lastSave, fetchedEver,
                   notPage>>

InitPage ==
    /\ token = ""
    /\ repos = {}
    /\ issuesByRepo = [r \in Repos |-> JsUndefined]
    /\ loadingIssues = [r \in Repos |-> "unset"]
    /\ savingIssues = [r \in Repos |-> "unset"]
    /\ pending = {}
    /\ alertMsg = ""
    /\ lastSave = NoSave
    /\ fetchedEver = {}

NextPage ==
    \/ SetToken
    \/ FetchReposStart
    \/ FetchReposDone
    \/ \E repo \in Repos : FetchIssuesStart(repo)
    \/ \E repo \in Repos : FetchIssuesDone(repo)
    \/ \E repo \in Repos : SaveIssuesStart(repo)
    \/ \E repo \in Repos : SaveIssuesDone(repo)

(***************************************************************************)
(* connect/reset-kb-state POST                                               *)
(***************************************************************************)
Connections == {"c1", "c2"}
\* connectionId / userId of the body: "" stands for a missing (falsy) field
ConnectionValues == Connections \cup {""}
UserValues == Users \cup {""}

SourceRows == [id : 1..MaxSources, user : Users, conn : Connections]

NoReset == [conn |-> "", user |-> "", source |-> 0, matched |-> {}, flag |-> FALSE,
            steps |-> <<>>, failed |-> "none"]

ResetDone(status, isError) ==
    Resp("connect/reset-kb-state", status, isError, IF isError THEN "absent" ELSE "true",
         IF isError THEN "error" ELSE "Successfully reset knowledge base state")

\* The catch block: 500, nothing else.
ResetFails(step) ==
    /\ resetPc' = "done"
    /\ resetResp' = ResetDone(500, TRUE)
    /\ resetCtx' = [resetCtx EXCEPT !.steps = Append(@, step), !.failed = step]

ResetNext(step, pc) ==
    /\ resetPc' = pc
    /\ resetCtx' = [resetCtx EXCEPT !.steps = Append(@, step)]
    /\ UNCHANGED resetResp

\* req.json() and the check of the two fields.
ResetBegin ==
    /\ resetPc \in {"idle", "done"}
    /\ \E conn \in ConnectionValues, user \in UserValues :
        /\ resetCtx' = [NoReset EXCEPT !.conn = conn, !.user = user,
                                       !.flag = IF conn = "" THEN FALSE
                                                ELSE vectorized[conn]]
        /\ IF conn = "" \/ user = ""
           THEN /\ resetPc' = "done"
                /\ resetResp' = ResetDone(400, TRUE)
           ELSE /\ resetPc' = "lookup"
                /\ resetResp' = Undefined("connect/reset-kb-state")
    /\ UNCHANGED <<kbSources, kbLinks, kbDocs, vectorized, notKb>>

\* .select('id').eq('user_id').eq('connection_id').single(): the row when
\* exactly one matches; PGRST116 with no data when none or several match.
SingleSource(user, conn) ==
    LET match == {r \in kbSources : r.user = user /\ r.conn = conn}
    IN IF Cardinality(match) = 1 THEN (CHOOSE r \in match : TRUE).id ELSE 0

ResetLookup ==
    /\ resetPc = "lookup"
    /\ \E db \in DbOutcomes :
        IF db = "error"
        THEN ResetFails("lookup")
        ELSE LET id == SingleSource(resetCtx.user, resetCtx.conn) IN
             /\ resetPc' = IF id = 0 THEN "update" ELSE "links"
             /\ resetCtx' = [resetCtx EXCEPT
                               !.source = id,
                               !.matched = {r.id : r \in {x \in kbSources :
                                               x.user = resetCtx.user
                                               /\ x.conn = resetCtx.conn}},
                               !.steps = Append(@, "lookup")]
             /\ UNCHANGED resetResp
    /\ UNCHANGED <<kbSources, kbLinks, kbDocs, vectorized, notKb>>

\* The source row deleted where the links should be.
ResetLinks_SourceFirst ==
    /\ resetPc = "links"
    /\ \E db \in DbOutcomes :
        IF db = "error"
        THEN ResetFails("links") /\ UNCHANGED kbSources
        ELSE /\ kbSources' = {r \in kbSources : r.id # resetCtx.source}
             /\ ResetNext("links", "docs")
    /\ UNCHANGED <<kbLinks, kbDocs, vectorized, notKb>>

\* delete from autonmis_kb_set_sources where source_id = source.id
ResetLinks ==
    /\ resetPc = "links"
    /\ \E db \in DbOutcomes :
        IF db = "error"
        THEN ResetFails("links") /\ UNCHANGED kbLinks
        ELSE /\ kbLinks' = kbLinks \ {resetCtx.source}
             /\ ResetNext("links", "docs")
    /\ UNCHANGED <<kbSources, kbDocs, vectorized, notKb>>

\* The document deletion with its error not looked at.
ResetDocs_ErrorIgnored ==
    /\ resetPc = "docs"
    /\ \E db \in DbOutcomes :
        /\ kbDocs' = IF db = "error" THEN kbDocs ELSE kbDocs \ {resetCtx.source}
        /\ resetPc' = "source"
        /\ resetCtx' = [resetCtx EXCEPT !.steps = Append(@, "docs"),
                                        !.failed = IF db = "error" THEN "docs" ELSE @]
        /\ UNCHANGED resetResp
    /\ UNCHANGED <<kbSources, kbLinks, vectorized, notKb>>

\* delete from autonmis_kb_documents where source_id = source.id
ResetDocs ==
    /\ resetPc = "docs"
    /\ \E db \in DbOutcomes :
        IF db = "error"
        THEN ResetFails("docs") /\ UNCHANGED kbDocs
        ELSE /\ kbDocs' = kbDocs \ {resetCtx.source}
             /\ ResetNext("docs", "source")
    /\ UNCHANGED <<kbSources, kbLinks, vectorized, notKb>>

\* delete from autonmis_kb_sources where id = source.id
ResetSource ==
    /\ resetPc = "source"
    /\ \E db \in DbOutcomes :
        IF db = "error"
        THEN ResetFails("source") /\ UNCHANGED kbSources
        ELSE /\ kbSources' = {r \in kbSources : r.id # resetCtx.source}
             /\ ResetNext("source", "update")
    /\ UNCHANGED <<kbLinks, kbDocs, vectorized, notKb>>

\* update autonomis_user_database set is_vectorized = false where id = connectionId
ResetUpdate ==
    /\ resetPc = "update"
    /\ \E db \in DbOutcomes :
        IF db = "error"
        THEN ResetFails("update") /\ UNCHANGED vectorized
        ELSE /\ vectorized' = [vectorized EXCEPT ![resetCtx.conn] = FALSE]
             /\ resetPc' = "done"
             /\ resetResp' = ResetDone(DefaultStatus, FALSE)
             /\ resetCtx' = [resetCtx EXCEPT !.steps = Append(@, "update")]
    /\ UNCHANGED <<kbSources, kbLinks, kbDocs, notKb>>

KbAtRest ==
    /\ resetPc = "idle"
    /\ resetCtx = NoReset
    /\ resetResp = Undefined("connect/reset-kb-state")

\* Any store whose links and documents refer to sources that exist.
InitKb ==
    /\ kbSources \in {rows \in SUBSET SourceRows :
                        \A a, b \in rows : a.id = b.id => a = b}
    /\ kbLinks \in SUBSET {r.id : r \in kbSources}
    /\ kbDocs \in SUBSET {r.id : r \in kbSources}
    /\ vectorized \in [Connections -> BOOLEAN]
    /\ KbAtRest

IdleKb ==
    /\ kbSources = {}
    /\ kbLinks = {}
    /\ kbDocs = {}
    /\ vectorized = [c \in Connections |-> FALSE]
    /\ KbAtRest

NextKb ==
    \/ ResetBegin
    \/ ResetLookup
    \/ ResetLinks
    \/ ResetDocs
    \/ ResetSource
    \/ ResetUpdate

(***************************************************************************)
(* s3/rename-file POST                                                       *)
(***************************************************************************)
Keys == {"a.csv", "b.csv"}
Contents == {"x", "y"}
S3Outcomes == {"ok", "error"}

NoRename == [old |-> "none", new |-> "none", content |-> "none", copied |-> FALSE]

\* CopyObject of the S3 service: fails when the source has no object, and
\* when source and destination are the same object and the request changes
\* neither metadata nor storage class (the handler sends none of these).
CopyObject(objects, old, new, s3) ==
    IF s3 = "error" \/ objects[old] = "none" \/ old = new
    THEN [ok |-> FALSE, objects |-> objects]
    ELSE [ok |-> TRUE, objects |-> [objects EXCEPT ![new] = objects[old]]]

\* DeleteObject of the S3 service.
DeleteObject(objects, key, s3) ==
    IF s3 = "error"
    THEN [ok |-> FALSE, objects |-> objects]
    ELSE [ok |-> TRUE, objects |-> [objects EXCEPT ![key] = "none"]]

RenameDone(status, isError, body) ==
    /\ renamePc' = "done"
    /\ renameResp' = Resp("s3/rename-file", status, isError, "absent", body)

\* getAutonomisUser and req.json()
RenameBegin ==
    /\ renamePc \in {"idle", "done"}
    /\ \E user \in UserOutcomes, old \in Keys, new \in Keys :
        /\ renameCtx' = [NoRename EXCEPT !.old = old, !.new = new,
                                         !.content = bucket[old]]
        /\ CASE user = "throws" -> RenameDone(500, TRUE, "error")
             [] user = "none" -> RenameDone(400, TRUE, "Invalid request")
             [] OTHER -> /\ renamePc' = "copy"
                         /\ renameResp' = Undefined("s3/rename-file")
    /\ UNCHANGED <<bucket, notRename>>

\* The copy's failure not looked at: the delete follows in any case.
RenameCopy_ErrorIgnored ==
    /\ renamePc = "copy"
    /\ \E s3 \in S3Outcomes :
        LET copy == CopyObject(bucket, renameCtx.old, renameCtx.new, s3) IN
        /\ bucket' = copy.objects
        /\ renamePc' = "delete"
        /\ renameCtx' = [renameCtx EXCEPT !.copied = copy.ok]
        /\ UNCHANGED renameResp
    /\ UNCHANGED notRename

\* await s3.send(copyCommand)
RenameCopy ==
    /\ renamePc = "copy"
    /\ \E s3 \in S3Outcomes :
        LET copy == CopyObject(bucket, renameCtx.old, renameCtx.new, s3) IN
        /\ bucket' = copy.objects
        /\ IF copy.ok
           THEN /\ renamePc' = "delete"
                /\ renameCtx' = [renameCtx EXCEPT !.copied = TRUE]
                /\ UNCHANGED renameResp
           ELSE /\ RenameDone(500, TRUE, "error")
                /\ UNCHANGED renameCtx
    /\ UNCHANGED notRename

\* await s3.send(deleteCommand) and the response
RenameDelete ==
    /\ renamePc = "delete"
    /\ \E s3 \in S3Outcomes :
        LET delete == DeleteObject(bucket, renameCtx.old, s3) IN
        /\ bucket' = delete.objects
        /\ IF delete.ok
           THEN RenameDone(201, FALSE, "File renamed successfully")
           ELSE RenameDone(500, TRUE, "error")
    /\ UNCHANGED <<renameCtx, notRename>>

RenameAtRest ==
    /\ renamePc = "idle"
    /\ renameCtx = NoRename
    /\ renameResp = Undefined("s3/rename-file")

InitRename ==
    /\ bucket \in [Keys -> Contents \cup {"none"}]
    /\ RenameAtRest

IdleRename ==
    /\ bucket = [k \in Keys |-> "none"]
    /\ RenameAtRest

NextRename ==
    \/ RenameBegin
    \/ RenameCopy
    \/ RenameDelete

(***************************************************************************)
(* s3/extract-rar POST                                                       *)
(***************************************************************************)
\* What req.json() gives: an object, the JSON value null, or a SyntaxError.
BodyValues == {"object", "null", "invalid"}

\* The awaited steps between the creation of the directory and its removal.
ExtractSteps == <<"getObject", "writeFile", "mkdirExtracted", "unrar", "readdir",
                  "getAutonomisUser", "putObject">>

\* getObject may give an object without Body, getAutonomisUser may give
\* {data: null}: both end in a throw inside the try block.
StepOutcomes(step) ==
    CASE step = "getObject" -> {"ok", "throws", "empty body"}
      [] step = "getAutonomisUser" -> {"ok", "throws", "no data"}
      [] OTHER -> {"ok", "throws"}

NoExtract == [body |-> "none", dir |-> 0, step |-> 0, failed |-> "none",
              rmFailed |-> FALSE]

ExtractDone(response) ==
    /\ extractPc' = "done"
    /\ extractResp' = response

ExtractFailed ==
    Resp("s3/extract-rar", 500, TRUE, "false", "Failed to process RAR file")

\* req.json(), the destructuring of the body, the name of the directory
ExtractBegin ==
    /\ extractPc \in {"idle", "done"}
    /\ extractCount < MaxExtracts
    /\ extractCount' = extractCount + 1
    /\ \E body \in BodyValues :
        /\ extractCtx' = [NoExtract EXCEPT !.body = body, !.dir = extractCount + 1]
        /\ CASE body = "invalid" ->
                  ExtractDone(Resp("s3/extract-rar", 400, TRUE, "absent",
                                   "Invalid request body"))
             [] body = "null" -> ExtractDone(Threw("s3/extract-rar"))
             [] OTHER -> /\ extractPc' = "mkdir"
                         /\ extractResp' = Undefined("s3/extract-rar")
    /\ UNCHANGED <<tmpDirs, notExtract>>

\* await fs.mkdir(tempDir, {recursive: true})
ExtractMkdir ==
    /\ extractPc = "mkdir"
    /\ \E fs \in {"ok", "throws"} :
        IF fs = "ok"
        THEN /\ tmpDirs' = tmpDirs \cup {extractCtx.dir}
             /\ extractPc' = "steps"
             /\ extractCtx' = [extractCtx EXCEPT !.step = 1]
        ELSE /\ extractPc' = "catch"
             /\ extractCtx' = [extractCtx EXCEPT !.failed = "mkdir"]
             /\ UNCHANGED tmpDirs
    /\ UNCHANGED <<extractCount, extractResp, notExtract>>

\* One awaited step of the try block, from the download to the uploads.
ExtractStep ==
    /\ extractPc = "steps"
    /\ \E outcome \in StepOutcomes(ExtractSteps[extractCtx.step]) :
        IF outcome = "ok"
        THEN IF extractCtx.step < Len(ExtractSteps)
             THEN /\ extractCtx' = [extractCtx EXCEPT !.step = @ + 1]
                  /\ UNCHANGED extractPc
             ELSE /\ extractPc' = "cleanup"
                  /\ UNCHANGED extractCtx
        ELSE /\ extractPc' = "catch"
             /\ extractCtx' = [extractCtx EXCEPT !.failed = ExtractSteps[extractCtx.step]]
    /\ UNCHANGED <<tmpDirs, extractCount, extractResp, notExtract>>

\* await fs.rm(tempDir, ...) at the end of the try block, and the response
ExtractCleanup ==
    /\ extractPc = "cleanup"
    /\ \E fs \in {"ok", "throws"} :
        IF fs = "ok"
        THEN /\ tmpDirs' = tmpDirs \ {extractCtx.dir}
             /\ ExtractDone(Resp("s3/extract-rar", 200, FALSE, "true", "Extracted and uploaded"))
             /\ UNCHANGED extractCtx
        ELSE /\ extractPc' = "catch"
             /\ extractCtx' = [extractCtx EXCEPT !.failed = "rm", !.rmFailed = TRUE]
             /\ UNCHANGED <<tmpDirs, extractResp>>
    /\ UNCHANGED <<extractCount, notExtract>>

\* The catch block: fs.rm in a try of its own, then the 500 response.
ExtractCatch ==
    /\ extractPc = "catch"
    /\ \E fs \in {"ok", "throws"} :
        IF fs = "ok"
        THEN /\ tmpDirs' = tmpDirs \ {extractCtx.dir}
             /\ extractCtx' = [extractCtx EXCEPT !.rmFailed = FALSE]
        ELSE /\ extractCtx' = [extractCtx EXCEPT !.rmFailed = TRUE]
             /\ UNCHANGED tmpDirs
    /\ ExtractDone(ExtractFailed)
    /\ UNCHANGED <<extractCount, notExtract>>

IdleExtract ==
    /\ tmpDirs = {}
    /\ extractCount = 0
    /\ extractPc = "idle"
    /\ extractCtx = NoExtract
    /\ extractResp = Undefined("s3/extract-rar")

NextExtract ==
    \/ ExtractBegin
    \/ ExtractMkdir
    \/ ExtractStep
    \/ ExtractCleanup
    \/ ExtractCatch

(***************************************************************************)
(* s3/list-python-scripts GET, list JSON files GET, S3 browse POST           *)
(***************************************************************************)
\* A key is written as what key.split('/') gives: "data/Old/y.csv" is
\* <<"data", "Old", "y.csv">>, the folder marker "data/" is <<"data", "">>.
\* The keys a bucket may hold, in the order ListObjectsV2 returns them
\* (UTF-8 binary order: upper case before lower case).
AllKeys ==
    << <<"Zeta.csv">>, <<"alpha.py">>, <<"data", "">>, <<"data", "Old", "y.csv">>,
       <<"data", "Zeta.csv">>, <<"data", "alpha.csv">>, <<"data", "apps", "x.csv">>,
       <<"notebooks", "a.py">>, <<"notebooks", "b.json">>,
       <<"scripts", "notebooks", "c.ipynb">> >>

KeySet == {AllKeys[i] : i \in 1..Len(AllKeys)}

\* Prefixes are '' (written <<"">>) or end with '/' (written <<"data", "">>).
StartsWith(key, prefix) ==
    /\ Len(key) >= Len(prefix)
    /\ \A i \in 1..(Len(prefix) - 1) : key[i] = prefix[i]

\* item.Key.split('/').pop()
LastSegment(key) == key[Len(key)]

Extension(name) ==
    CASE name \in {"alpha.py", "a.py"} -> ".py"
      [] name \in {"c.ipynb"} -> ".ipynb"
      [] name \in {"b.json"} -> ".json"
      [] name \in {"Zeta.csv", "alpha.csv", "x.csv", "y.csv"} -> ".csv"
      [] OTHER -> ""

\* item.Key.endsWith(ext)
EndsWith(key, exts) == Extension(LastSegment(key)) \in exts

\* ListObjectsV2 without delimiter: Contents.
ListObjectsV2(objects, prefix) ==
    SelectSeq(AllKeys, LAMBDA k : k \in objects /\ StartsWith(k, prefix))

PythonPrefixes ==
    << <<"notebooks", "">>, <<"python-scripts", "">>, <<"scripts", "">>,
       <<"py-files", "">>, <<"python", "">>, <<"">> >>

JsonPrefixes ==
    << <<"notebooks", "">>, <<"sql-configs", "">>, <<"configs", "">>,
       <<"json-configs", "">>, <<"json", "">>, <<"">> >>

\* prefix || 'root'
FolderOf(prefix) == IF prefix = <<"">> THEN "root" ELSE prefix[1] \o "/"

\* The loop over the prefixes: the listing of a prefix is filtered, mapped
\* and concatenated; a prefix whose listing throws adds nothing.
AllFiles(objects, prefixes, exts, failed) ==
    LET found(i) == SelectSeq(ListObjectsV2(objects, prefixes[i]),
                              LAMBDA k : EndsWith(k, exts))
        entries(i) == [j \in 1..Len(found(i)) |->
                         [key |-> found(i)[j], name |-> LastSegment(found(i)[j]),
                          folder |-> FolderOf(prefixes[i])]]
        all[i \in 0..Len(prefixes)] ==
            IF i = 0 THEN <<>>
            ELSE IF i \in failed THEN all[i - 1]
            ELSE all[i - 1] \o entries(i)
    IN all[Len(prefixes)]

\* self.findIndex(f => f.key === key)
FindIndex(files, key) ==
    CHOOSE i \in 1..Len(files) :
        /\ files[i].key = key
        /\ \A j \in 1..(i - 1) : files[j].key # key

\* No removal of duplicates.
Unique_Unfiltered(files) == files

\* allFiles.filter((file, index, self) => index === self.findIndex(...))
Unique(files) ==
    LET kept[i \in 0..Len(files)] ==
            IF i = 0 THEN <<>>
            ELSE IF i = FindIndex(files, files[i].key) THEN Append(kept[i - 1], files[i])
            ELSE kept[i - 1]
    IN kept[Len(files)]

ListResponse(status, objects) == [status |-> status, objects |-> objects]

\* The handlers keep nothing between requests: a behaviour is one request
\* on one bucket.
\* The handler: every key once, in the order found; never an error status.
ListFiles(objects, prefixes, exts, failed) ==
    ListResponse(DefaultStatus, Unique(AllFiles(objects, prefixes, exts, failed)))

ListPythonScripts ==
    /\ listReq.route = "none"
    /\ \E failed \in SUBSET (1..Len(PythonPrefixes)) :
        /\ listReq' = [route |-> "s3/list-python-scripts", user |-> "user",
                       prefix |-> <<"">>, failed |-> failed]
        /\ listResp' = ListFiles(listBucket, PythonPrefixes, {".py", ".ipynb"}, failed)
    /\ listCalls' = Len(PythonPrefixes)
    /\ UNCHANGED <<listBucket, notList>>

ListJsonFiles ==
    /\ listReq.route = "none"
    /\ \E failed \in SUBSET (1..Len(JsonPrefixes)) :
        /\ listReq' = [route |-> "s3/list-json-files", user |-> "user",
                       prefix |-> <<"">>, failed |-> failed]
        /\ listResp' = ListFiles(listBucket, JsonPrefixes, {".json"}, failed)
    /\ listCalls' = Len(JsonPrefixes)
    /\ UNCHANGED <<listBucket, notList>>

\* ListObjectsV2 with Delimiter '/': Contents are the keys with no '/' after
\* the prefix, CommonPrefixes the prefixes up to the next '/', each once.
ListContents(objects, prefix) ==
    SelectSeq(ListObjectsV2(objects, prefix), LAMBDA k : Len(k) = Len(prefix))

ListCommonPrefixes(objects, prefix) ==
    LET deeper == SelectSeq(ListObjectsV2(objects, prefix), LAMBDA k : Len(k) > Len(prefix))
        common(k) == SubSeq(k, 1, Len(prefix)) \o <<"">>
        seen[i \in 0..Len(deeper)] ==
            IF i = 0 THEN <<>>
            ELSE IF \E j \in 1..(i - 1) : common(deeper[j]) = common(deeper[i])
                 THEN seen[i - 1]
                 ELSE Append(seen[i - 1], common(deeper[i]))
    IN seen[Len(deeper)]

\* key.split('/').filter(Boolean).pop() + '/'
FolderName(key) ==
    LET segments == SelectSeq(key, LAMBDA part : part # "")
    IN IF segments = <<>> THEN "undefined/" ELSE LastSegment(segments) \o "/"

\* The names in the order of String.prototype.localeCompare (letters before
\* their case: "alpha" before "Zeta").
LocaleOrder ==
    <<"a.py", "alpha.csv", "alpha.py", "apps/", "b.json", "c.ipynb", "data/",
      "notebooks/", "Old/", "scripts/", "undefined/", "x.csv", "y.csv", "Zeta.csv">>

\* a.name.localeCompare(b.name) <= 0
LocaleLeq(a, b) ==
    LET rank(name) == CHOOSE i \in 1..Len(LocaleOrder) : LocaleOrder[i] = name
    IN rank(a) <= rank(b)

\* The listing left in the order S3 gave it.
SortByName_Unsorted(entries) == entries

\* entries.sort((a, b) => a.name.localeCompare(b.name)): a stable sort
SortByName(entries) ==
    LET insert(sorted, e) ==
            LET before == SelectSeq(sorted, LAMBDA x : LocaleLeq(x.name, e.name))
                after == SelectSeq(sorted, LAMBDA x : ~ LocaleLeq(x.name, e.name))
            IN before \o <<e>> \o after
        sort[i \in 0..Len(entries)] ==
            IF i = 0 THEN <<>> ELSE insert(sort[i - 1], entries[i])
    IN sort[Len(entries)]

BrowsePrefixes == {<<"">>, <<"data", "">>, <<"notebooks", "">>, <<"missing", "">>}

BrowseObjects(objects, prefix) ==
    LET common == ListCommonPrefixes(objects, prefix)
        folders == [i \in 1..Len(common) |->
                      [key |-> common[i], name |-> FolderName(common[i]),
                       type |-> "folder"]]
        contents == SelectSeq(SelectSeq(ListContents(objects, prefix),
                                        LAMBDA k : k # prefix),
                              LAMBDA k : LastSegment(k) # "")
        files == [i \in 1..Len(contents) |->
                    [key |-> contents[i], name |-> LastSegment(contents[i]),
                     type |-> "file"]]
    IN SortByName(folders) \o SortByName(files)

Browse ==
    /\ listReq.route = "none"
    /\ \E user \in UserOutcomes, prefix \in BrowsePrefixes, s3 \in S3Outcomes :
        /\ listReq' = [route |-> "s3/browse", user |-> user, prefix |-> prefix,
                       failed |-> IF s3 = "error" THEN {1} ELSE {}]
        /\ CASE user = "throws" ->
                  /\ listResp' = ListResponse(500, <<>>)
                  /\ listCalls' = 0
             [] user = "none" ->
                  /\ listResp' = ListResponse(401, <<>>)
                  /\ listCalls' = 0
             [] s3 = "error" ->
                  /\ listResp' = ListResponse(500, <<>>)
                  /\ listCalls' = 1
             [] OTHER ->
                  /\ listResp' = ListResponse(DefaultStatus,
                                              BrowseObjects(listBucket, prefix))
                  /\ listCalls' = 1
        /\ UNCHANGED <<listBucket, notList>>

ListAtRest ==
    /\ listReq = [route |-> "none", user |-> "none", prefix |-> <<"">>, failed |-> {}]
    /\ listResp = ListResponse(0, <<>>)
    /\ listCalls = 0

InitList ==
    /\ listBucket \in SUBSET KeySet
    /\ ListAtRest

IdleList ==
    /\ listBucket = {}
    /\ ListAtRest

NextList ==
    \/ ListPythonScripts
    \/ ListJsonFiles
    \/ Browse

(***************************************************************************)
(* backend-status GET                                                        *)
(***************************************************************************)
\* Promise.all([checkServiceHealth('airflow', ...), checkServiceHealth('sling', ...)])
ServiceNames == <<"airflow", "sling">>
Services == {"airflow", "sling"}

\* What the fetch of a health endpoint ends with: an OK response whose body
\* is a JSON object, the JSON value null or no JSON at all, a response that
\* is not OK, a rejected fetch, or the abort after config.timeout.
HealthOutcomes ==
    {"ok object", "ok null", "ok not json", "not ok", "throws", "timeout"}

ConfigName(serviceName) == IF serviceName = "airflow" THEN "Airflow" ELSE "Sling"

ServiceStatus(serviceName, status, details) ==
    [name |-> ConfigName(serviceName), status |-> status, details |-> details]

\* response.json().catch(() => ({})): the parsed body, {} when it does not parse
HealthData(outcome) ==
    CASE outcome = "ok object" -> "object"
      [] outcome = "ok null" -> "null"
      [] OTHER -> "object"

\* data.jobs and data.version are read inside the try block: for the body
\* null the read throws a TypeError and the catch block answers 'offline'.
CheckServiceHealth(serviceName, outcome) ==
    CASE outcome = "timeout" -> ServiceStatus(serviceName, "offline", "Timeout")
      [] outcome = "throws" -> ServiceStatus(serviceName, "offline", "message")
      [] outcome = "not ok" -> ServiceStatus(serviceName, "error", "statusCode")
      [] HealthData(outcome) = "null" -> ServiceStatus(serviceName, "offline", "message")
      [] OTHER -> ServiceStatus(serviceName, "online", "data")

Overall(serviceChecks) ==
    LET onlineServices ==
            Cardinality({i \in 1..Len(serviceChecks) : serviceChecks[i].status = "online"})
    IN IF onlineServices = Len(serviceChecks) THEN "healthy"
       ELSE IF onlineServices > 0 THEN "degraded"
       ELSE "down"

\* A checkServiceHealth promise not yet settled.
PendingCheck == [name |-> "none", status |-> "pending", details |-> "none"]

NoStatusResp == [status |-> 0, services |-> <<>>, overall |-> "none"]

\* GET: the two checks are started.
StatusBegin ==
    /\ statusPc \in {"idle", "done"}
    /\ statusPc' = "checking"
    /\ statusReq' \in [Services -> HealthOutcomes]
    /\ statusChecks' = [n \in Services |-> PendingCheck]
    /\ statusOrder' = <<>>
    /\ statusResp' = NoStatusResp
    /\ UNCHANGED notStatus

\* One checkServiceHealth call settles; the other may settle before or after.
CheckDone(serviceName) ==
    /\ statusPc = "checking"
    /\ statusChecks[serviceName] = PendingCheck
    /\ statusChecks' = [statusChecks EXCEPT
                          ![serviceName] = CheckServiceHealth(serviceName,
                                                              statusReq[serviceName])]
    /\ statusOrder' = Append(statusOrder, serviceName)
    /\ UNCHANGED <<statusPc, statusReq, statusResp, notStatus>>

\* Promise.all resolves with the results in the order of the calls.
StatusRespond ==
    /\ statusPc = "checking"
    /\ \A n \in Services : statusChecks[n] # PendingCheck
    /\ LET serviceChecks == [i \in 1..Len(ServiceNames) |-> statusChecks[ServiceNames[i]]]
       IN statusResp' = [status |-> DefaultStatus, services |-> serviceChecks,
                         overall |-> Overall(serviceChecks)]
    /\ statusPc' = "done"
    /\ UNCHANGED <<statusReq, statusChecks, statusOrder, notStatus>>

IdleStatus ==
    /\ statusPc = "idle"
    /\ statusReq = [n \in Services |-> "ok object"]
    /\ statusChecks = [n \in Services |-> PendingCheck]
    /\ statusOrder = <<>>
    /\ statusResp = NoStatusResp

NextStatus ==
    \/ StatusBegin
    \/ \E n \in Services : CheckDone(n)
    \/ StatusRespond

(***************************************************************************)
(* OAuth callback GET (HubSpot, Meta Ads, Zoho), with the cookies set         *)
(***************************************************************************)
CallbackCookies(provider) ==
    CASE provider = "salesforce" -> SalesforceCookies
      [] provider = "hubspot" -> {"hs_access_token", "hs_refresh_token"}
      [] provider = "zoho" -> {"zoho_access_token", "zoho_refresh_token"}
      [] OTHER -> {"meta_access_token"}

AllCallbackCookies ==
    UNION {CallbackCookies(provider) : provider \in {"salesforce", "hubspot", "zoho", "meta-ads"}}

\* The token exchange: tokens, a reply without data (for Meta Ads also one
\* without access_token), or a rejected request.
ExchangeOutcomes == {"tokens", "empty", "fail"}
\* The client id and secret (for Zoho also the redirect URI) of the environment.
EnvValues == {"all", "some", "none"}
\* The `state` query parameter: a connection name, or null.
StateValues == {"conn", "null"}
\* supabase.auth.getUser(), the datasource lookup, the insert
SessionOutcomes == {"user", "none", "throws"}
DatasourceOutcomes == {"found", "missing", "throws"}
InsertOutcomes == {"ok", "error", "throws"}

CallbackResult(response, jar, set, rows) ==
    [resp |-> response, jar |-> jar, set |-> set, rows |-> rows]

\* if (state) { try { ... } catch { console.error } }: what the block does to
\* the table, and whether it returns a response of its own.
StoreConnection(provider, state, session, datasource, insert) ==
    CASE state = "null" -> [rows |-> {}, returns |-> FALSE]
      [] session # "user" -> [rows |-> {}, returns |-> FALSE]
      [] datasource = "throws" -> [rows |-> {}, returns |-> FALSE]
      [] datasource = "missing" -> [rows |-> {}, returns |-> TRUE]
      [] insert = "ok" ->
            [rows |-> {[user_id |-> "u1", conn_name |-> state, provider |-> provider]},
             returns |-> FALSE]
      [] OTHER -> [rows |-> {}, returns |-> FALSE]

\* The HubSpot and the Meta Ads callback: the same handler but for the names.
ConnectCallbackGET(provider, user, code, env, exchange, state, session, datasource, insert, jar) ==
    LET route == "callback/" \o provider
        stored == StoreConnection(provider, state, session, datasource, insert)
    IN IF user = "throws" THEN CallbackResult(Threw(route), jar, {}, {})
       ELSE IF user = "none"
       THEN CallbackResult(Resp(route, 400, TRUE, "absent", "Invalid Request"), jar, {}, {})
       ELSE IF ~code
       THEN CallbackResult(Resp(route, 405, TRUE, "absent", "Authorization code missing"),
                           jar, {}, {})
       ELSE IF env # "all"
       THEN CallbackResult(Resp(route, 400, TRUE, "absent", "credentials not found"),
                           jar, {}, {})
       ELSE IF exchange = "fail"
       THEN CallbackResult(Resp(route, 500, TRUE, "absent", "Error fetching tokens"),
                           jar, {}, {})
       ELSE IF exchange = "empty"
       THEN CallbackResult(Resp(route, 400, TRUE, "absent", "Token exchange failed"),
                           jar, {}, {})
       ELSE IF stored.returns
       THEN CallbackResult(Resp(route, 500, TRUE, "absent", "Could not find datasource"),
                           jar \cup CallbackCookies(provider), CallbackCookies(provider), {})
       ELSE CallbackResult(Resp(route, 307, FALSE, "absent", "redirect"),
                           jar \cup CallbackCookies(provider), CallbackCookies(provider),
                           stored.rows)

\* The Zoho callback: 'credentials not found' only when all three are missing.
ZohoCallbackGET(user, code, env, exchange, jar) ==
    LET route == "callback/zoho"
    IN IF user = "throws" THEN CallbackResult(Threw(route), jar, {}, {})
       ELSE IF user = "none"
       THEN CallbackResult(Resp(route, 400, TRUE, "absent", "Invalid Request"), jar, {}, {})
       ELSE IF ~code
       THEN CallbackResult(Resp(route, 405, TRUE, "absent", "Authorization code missing"),
                           jar, {}, {})
       ELSE IF env = "none"
       THEN CallbackResult(Resp(route, 400, TRUE, "absent", "credentials not found"),
                           jar, {}, {})
       ELSE IF exchange = "fail"
       THEN CallbackResult(Resp(route, 500, TRUE, "absent", "Error fetching tokens"),
                           jar, {}, {})
       ELSE IF exchange = "empty"
       THEN CallbackResult(Resp(route, 400, TRUE, "absent", "Token exchange failed"),
                           jar, {}, {})
       ELSE CallbackResult(Resp(route, DefaultStatus, FALSE, "absent", "success"),
                           jar \cup CallbackCookies("zoho"), CallbackCookies("zoho"), {})

CallbackRequest(provider, user, code, state) ==
    [provider |-> provider, user |-> user, code |-> code, state |-> state, jar |-> cbJar]

CallbackAnswer(r) ==
    /\ cbResp' = r.resp
    /\ cbJar' = r.jar
    /\ cbSet' = r.set
    /\ cbRows' = cbRows \cup r.rows
    /\ UNCHANGED notCallback

\* A behaviour is one callback request, on any cookie jar.
ConnectCallback(provider) ==
    /\ cbReq.provider = "none"
    /\ \E user \in UserOutcomes, code \in BOOLEAN, env \in {"all", "none"},
          exchange \in ExchangeOutcomes, state \in StateValues,
          session \in SessionOutcomes, datasource \in DatasourceOutcomes,
          insert \in InsertOutcomes :
        /\ cbReq' = CallbackRequest(provider, user, code, state)
        /\ CallbackAnswer(ConnectCallbackGET(provider, user, code, env, exchange, state,
                                             session, datasource, insert, cbJar))

HubspotCallback == ConnectCallback("hubspot")

MetaAdsCallback == ConnectCallback("meta-ads")

ZohoCallback ==
    /\ cbReq.provider = "none"
    /\ \E user \in UserOutcomes, code \in BOOLEAN, env \in EnvValues,
          exchange \in ExchangeOutcomes :
        /\ cbReq' = CallbackRequest("zoho", user, code, "null")
        /\ CallbackAnswer(ZohoCallbackGET(user, code, env, exchange, cbJar))

\* The Salesforce callback of the routes above, on this jar.
SalesforceCallbackSets ==
    /\ cbReq.provider = "none"
    /\ \E user \in UserOutcomes, code \in BOOLEAN, vendor \in VendorOutcomes :
        LET r == SalesforceCallbackGET(user, code, cbJar, vendor) IN
        /\ cbReq' = CallbackRequest("salesforce", user, code, "null")
        /\ CallbackAnswer(CallbackResult(r.resp, r.jar,
                                         IF r.calls # {} /\ vendor = "ok"
                                         THEN SalesforceCookies ELSE {}, {}))

CallbackAtRest ==
    /\ cbRows = {}
    /\ cbReq = [provider |-> "none", user |-> "none", code |-> FALSE, state |-> "null",
                jar |-> {}]
    /\ cbSet = {}
    /\ cbResp = Undefined("callback")

InitCallback ==
    /\ cbJar \in SUBSET AllCallbackCookies
    /\ CallbackAtRest
    /\ cbReq.jar = {}

IdleCallback ==
    /\ cbJar = {}
    /\ CallbackAtRest

NextCallback ==
    \/ SalesforceCallbackSets
    \/ HubspotCallback
    \/ MetaAdsCallback
    \/ ZohoCallback

(***************************************************************************)
(* The other route handlers, each by the replies its branches return.        *)
(***************************************************************************)
\* A handler's replies: its failing branches' statuses and its successes'.
Replies(route, failures, successes) ==
    {Resp(route, st, TRUE, "absent", "error") : st \in failures}
        \cup {Resp(route, st, FALSE, "absent", "ok") : st \in successes}

\* Statuses an upstream server answers with.
UpstreamReplyStatuses == {200, 404, 503}

\* A body returned with the status of the upstream's reply.
Relayed(route, st) == Resp(route, st, st >= 400, "absent", "relayed")

ResetKbStateReplies == Replies("connect/reset-kb-state", {400, 500}, {200})
ResetKbStateAllReplies == Replies("connect/reset-kb-state#2", {400, 500}, {200})
ExtractorConfigPostReplies == Replies("extractors/config POST", {401, 500}, {200})
ExtractorConfigGetReplies == Replies("extractors/config GET", {401, 400, 500}, {200})
ExtractorStatusReplies == Replies("extractors/status", {401, 400, 500}, {200})
SourceObjectsReplies == Replies("extractors/[source]/objects", {401, 404, 500}, {200})
GithubObjectsReplies == Replies("extractors/github/objects", {400, 500}, {200})
S3DownloadReplies == Replies("s3/download", {401, 400, 500}, {200})
ExtractRarReplies == Replies("s3/extract-rar", {400, 500}, {200})
S3FilesReplies == Replies("s3/file-explorer", {400, 500}, {200})
ListBucketContentReplies == Replies("s3/list-bucket-content", {400, 500}, {200})
ListPythonScriptsReplies == Replies("s3/list-python-scripts", {500}, {200})
RenameFileReplies == Replies("s3/rename-file", {400, 500}, {201})
DbConnectReplies == Replies("dbconnect", {400}, {200})
FullStackGithubObjectsReplies == Replies("full-stack github/objects", {400, 500}, {200})
FullStackGithubRunReplies == Replies("full-stack github/run", {400, 500}, {200})
NotionDataReplies == Replies("full-stack notion/data", {400, 500}, {200})
NotionDatabasesReplies == Replies("full-stack notion/databases", {400, 500}, {200})
NotionRunReplies == Replies("full-stack notion/run", {400, 500}, {200})
BackendStatusReplies == Replies("backend-status", {500}, {200})
SocketInitReplies == Replies("socket", {}, {200})
MetaAdsCallbackReplies == Replies("callback/meta-ads", {400, 405, 500}, {307})
ZohoCallbackReplies == Replies("callback/zoho", {400, 405, 500}, {200})
HubspotCallbackReplies == Replies("callback/hubspot", {400, 405, 500}, {307})
ListJsonReplies == Replies("s3/list-json", {500}, {200})
InitiateUploadReplies == Replies("s3/multipart/initiate", {400, 500}, {200})
DeleteFileReplies == Replies("s3/delete", {400, 500}, {200})
CompleteUploadReplies == Replies("s3/multipart/complete", {400, 500}, {200})
ListUserFilesReplies == Replies("s3/list", {400, 500}, {200})
PresignedUrlReplies == Replies("s3/presigned-url", {400, 500}, {200})
PartUrlReplies == Replies("s3/multipart/part-url", {400, 500}, {200})
BrowseReplies == Replies("s3/browse", {401, 500}, {200})
UploadPartUrlReplies == Replies("s3/upload-part", {400, 500}, {200})
GithubIssuesReplies == Replies("github/issues", {400, 500}, {200})
LoadReplies == Replies("load", {400, 500}, {200})

\* POST http-socket-proxy: relays error.response.status, else 500.
HttpSocketProxyReplies ==
    Replies("http-socket-proxy", {500}, {200})
        \cup {Relayed("http-socket-proxy", st) : st \in {x \in UpstreamReplyStatuses : x >= 400}}

\* handleProxy: the upstream's reply with its status, or 500 'Proxy error'.
HandleProxyReplies ==
    Replies("s3/file-explorer proxy", {500}, {})
        \cup {Relayed("s3/file-explorer proxy", st) : st \in UpstreamReplyStatuses}

\* POST extractors/run
RunReplies == {RunUnauthorized, RunNoPipeline, RunNoConfig, RunFailed, RunStarted}

\* One request to a handler, answered by one of its replies.
Handle(replies) ==
    \E r \in replies :
        /\ req' = [route |-> r.route, user |-> "user", app |-> "null", jar |-> cookies,
                   vendor |-> "ok"]
        /\ resp' = r
        /\ calls' = {}
        /\ UNCHANGED <<cookies, notRoutes>>

InitRoutes ==
    /\ cookies \in {j \in SUBSET CookieNames : Cardinality(j) <= MaxJar}
    /\ req = NoRequest
    /\ resp = Undefined("none")
    /\ calls = {}

\* The connector handlers at rest (for the specifications of other handlers).
IdleRoutes ==
    /\ cookies = {}
    /\ req = NoRequest
    /\ resp = Undefined("none")
    /\ calls = {}

NextRoutes ==
    \/ AddToKb
    \/ Handle(RunReplies)
    \/ FetchData
    \/ FetchCredentials
    \/ Disconnect
    \/ SalesforceCallback
    \/ Handle(ResetKbStateReplies)
    \/ Handle(ResetKbStateAllReplies)
    \/ Handle(ExtractorConfigPostReplies)
    \/ Handle(ExtractorConfigGetReplies)
    \/ Handle(ExtractorStatusReplies)
    \/ Handle(SourceObjectsReplies)
    \/ Handle(GithubObjectsReplies)
    \/ Handle(S3DownloadReplies)
    \/ Handle(ExtractRarReplies)
    \/ Handle(S3FilesReplies)
    \/ Handle(ListBucketContentReplies)
    \/ Handle(ListPythonScriptsReplies)
    \/ Handle(RenameFileReplies)
    \/ Handle(DbConnectReplies)
    \/ Handle(FullStackGithubObjectsReplies)
    \/ Handle(FullStackGithubRunReplies)
    \/ Handle(NotionDataReplies)
    \/ Handle(NotionDatabasesReplies)
    \/ Handle(NotionRunReplies)
    \/ Handle(BackendStatusReplies)
    \/ Handle(SocketInitReplies)
    \/ Handle(MetaAdsCallbackReplies)
    \/ Handle(ZohoCallbackReplies)
    \/ Handle(HubspotCallbackReplies)
    \/ Handle(ListJsonReplies)
    \/ Handle(InitiateUploadReplies)
    \/ Handle(DeleteFileReplies)
    \/ Handle(CompleteUploadReplies)
    \/ Handle(ListUserFilesReplies)
    \/ Handle(PresignedUrlReplies)
    \/ Handle(PartUrlReplies)
    \/ Handle(BrowseReplies)
    \/ Handle(UploadPartUrlReplies)
    \/ Handle(GithubIssuesReplies)
    \/ Handle(LoadReplies)
    \/ Handle(HttpSocketProxyReplies)
    \/ Handle(HandleProxyReplies)

InitSpecRoutes == InitRoutes /\ IdleUpload /\ InitProxy /\ InitRun /\ IdleNotion /\ InitPage /\ IdleKb /\ IdleRename /\ IdleExtract /\ IdleList /\ IdleStatus /\ IdleCallback
SpecRoutes == InitSpecRoutes /\ [][NextRoutes]_vars

InitSpecUpload == IdleRoutes /\ InitUpload /\ InitProxy /\ InitRun /\ IdleNotion /\ InitPage /\ IdleKb /\ IdleRename /\ IdleExtract /\ IdleList /\ IdleStatus /\ IdleCallback
SpecUpload == InitSpecUpload /\ [][NextUpload]_vars

InitSpecProxy == IdleRoutes /\ IdleUpload /\ InitProxy /\ InitRun /\ IdleNotion /\ InitPage /\ IdleKb /\ IdleRename /\ IdleExtract /\ IdleList /\ IdleStatus /\ IdleCallback
SpecProxy == InitSpecProxy /\ [][NextProxy]_vars

InitSpecRun == IdleRoutes /\ IdleUpload /\ InitProxy /\ InitRun /\ IdleNotion /\ InitPage /\ IdleKb /\ IdleRename /\ IdleExtract /\ IdleList /\ IdleStatus /\ IdleCallback
SpecRun == InitSpecRun /\ [][NextRun]_vars

SpecConfig == InitSpecRun /\ [][NextConfig]_vars

InitSpecKb == IdleRoutes /\ IdleUpload /\ InitProxy /\ InitRun /\ IdleNotion /\ InitPage /\ InitKb /\ IdleRename /\ IdleExtract /\ IdleList /\ IdleStatus /\ IdleCallback
SpecKb == InitSpecKb /\ [][NextKb]_vars

InitSpecRename == IdleRoutes /\ IdleUpload /\ InitProxy /\ InitRun /\ IdleNotion /\ InitPage /\ IdleKb /\ InitRename /\ IdleExtract /\ IdleList /\ IdleStatus /\ IdleCallback
SpecRename == InitSpecRename /\ [][NextRename]_vars

InitSpecList == IdleRoutes /\ IdleUpload /\ InitProxy /\ InitRun /\ IdleNotion /\ InitPage /\ IdleKb /\ IdleRename /\ IdleExtract /\ InitList /\ IdleStatus /\ IdleCallback
SpecList == InitSpecList /\ [][NextList]_vars

InitSpecCallback == IdleRoutes /\ IdleUpload /\ InitProxy /\ InitRun /\ IdleNotion /\ InitPage /\ IdleKb /\ IdleRename /\ IdleExtract /\ IdleList /\ IdleStatus /\ InitCallback
SpecCallback == InitSpecCallback /\ [][NextCallback]_vars

\* The handler has no state of its own: it starts from the state at rest.
SpecStatus == InitSpecRun /\ [][NextStatus]_vars

\* Same initial state as the other handlers' specifications: nothing in /tmp.
SpecExtract == InitSpecRename /\ [][NextExtract]_vars

\* The event loop runs a handler on after its awaits and fires every timer
\* that was set.
FairRun ==
    /\ \A q \in RunReqs : WF_vars(RunRespond(q))
    /\ \A run \in RunReqs : WF_vars(run <= Len(runs) /\ TimerStart(run))
    /\ \A run \in RunReqs : WF_vars(run <= Len(runs) /\ TimerComplete(run))

\* The jobs of the runs, on any config table left by earlier config requests.
ConfigTables ==
    UNION {[1..n -> [pipeline_id : {1, 2}, user_id : Users,
                     config : {StoredColumn(JsonStringify(JsNull))},
                     posted : {JsNull}]] : n \in 0..MaxConfigs}

InitRunJobs ==
    /\ configs \in ConfigTables
    /\ configResp = Undefined("extractors/config")
    /\ runs = <<>>
    /\ runPc = [q \in RunReqs |-> "idle"]
    /\ runCtx = [q \in RunReqs |-> NoCtx]
    /\ runResp = [q \in RunReqs |-> Undefined("extractors/run")]
    /\ timers = <<>>
    /\ statusLog = <<>>

NextRunJobs ==
    \/ \E q \in RunReqs : RunBegin(q)
    \/ \E q \in RunReqs : RunInsert(q)
    \/ \E q \in RunReqs : RunRespond(q)
    \/ \E run \in 1..Len(runs) : TimerStart(run)
    \/ \E run \in 1..Len(runs) : TimerComplete(run)

InitSpecRunFair == IdleRoutes /\ IdleUpload /\ InitProxy /\ InitRunJobs /\ IdleNotion /\ InitPage /\ IdleKb /\ IdleRename /\ IdleExtract /\ IdleList /\ IdleStatus /\ IdleCallback
SpecRunFair == InitSpecRunFair /\ [][NextRunJobs]_vars /\ FairRun

InitSpecNotion == IdleRoutes /\ IdleUpload /\ InitProxy /\ InitRun /\ InitNotion /\ InitPage /\ IdleKb /\ IdleRename /\ IdleExtract /\ IdleList /\ IdleStatus /\ IdleCallback
SpecNotion == InitSpecNotion /\ [][NextNotion]_vars

InitSpecPage == IdleRoutes /\ IdleUpload /\ InitProxy /\ InitRun /\ IdleNotion /\ InitPage /\ IdleKb /\ IdleRename /\ IdleExtract /\ IdleList /\ IdleStatus /\ IdleCallback
SpecPage == InitSpecPage /\ [][NextPage]_vars

(***************************************************************************)
(* Claims                                                                    *)
(***************************************************************************)

\* C1: every error response of every route handler carries a status in
\* {400, 401, 402, 500}.
C1_FourStatuses ==
    (resp.returned /\ resp.error) => resp.status \in {400, 401, 402, 500}

\* C1, amended: every error response a handler gives a status of its own
\* carries one of {400, 401, 402, 404, 405, 409, 500}; a relayed upstream
\* status and an error body sent without a status are not covered.
C1_ErrorStatuses ==
    (resp.returned /\ resp.error /\ resp.status # DefaultStatus /\ resp.body # "relayed")
    => resp.status \in {400, 401, 402, 404, 405, 409, 500}

\* A conflicting record is reported with 409, a missing one with 404.
C1_Witness ==
    /\ resp.returned
    /\ resp.error
    /\ \/ resp.route = "connect/add-to-kb" /\ resp.status = 409
       \/ resp.route = "extractors/run" /\ resp.status = 404

\* C2: every invocation of fetch-data, fetch-credentials and disconnect ends
\* with a response, whatever the value of `app` (a provider, an unknown
\* name, no value), when nothing throws outside the handlers' own try blocks.
C2_AlwaysAResponse ==
    (req.route \in {"fetch-data", "fetch-credentials", "disconnect"}
        /\ req.user # "throws")
    => resp.returned

\* C3: each request handled by handleProxy gets a response built from the
\* upstream reply to that same request, never from the reply to another one.
C3_OwnReply ==
    \A r \in ProxyReqs :
        (proxyPromise[r].resolved /\ proxyPromise[r].from # 0)
        => proxyPromise[r].from = r

\* C4: the multipart endpoints keep no record of uploads.  A request with a
\* missing (absent, empty or zero) field gets 400 and nothing is sent to S3;
\* a request with all its fields is forwarded once, for key userId/fileName,
\* and its reply is decided by S3's answer to that request alone (200 when
\* S3 accepts, 500 when it does not), whatever requests came before.
C4_Missing(x) == x \in {JsUndefined, JsString(""), JsNumber(0)}

C4_FieldsOf(r) ==
    CASE r.op = "initiate" -> {r.fileName, r.userId}
      [] r.op = "part" -> {r.fileName, r.userId, r.uploadId, r.partNumber}
      [] OTHER -> {r.uploadId, r.parts, r.fileName, r.userId}

C4_Stateless ==
    (upReq.op # "none" /\ upReq.parse)
    => IF \E x \in C4_FieldsOf(upReq) : C4_Missing(x)
       THEN upResp.status = 400 /\ upSent = <<>>
       ELSE /\ Len(upSent) = 1
            /\ upSent[1].key = <<upReq.userId.v, upReq.fileName.v>>
            /\ upResp.status = IF upReq.answer = "ok" THEN 200 ELSE 500

\* A part URL was issued for an upload S3 does not know, before any initiate
\* request reached this server.
C4_Witness ==
    /\ upReq.op = "part"
    /\ upResp.status = 200
    /\ "initiate" \notin received
    /\ \A u \in s3Uploads : u.id # upReq.uploadId.v

\* C5: POST extractors/run answers without waiting for the simulated job.
\* When the success response is produced the run's row has status 'queued'
\* and has had no other; no status update of an inserted run happens before
\* its response; and once produced the response never changes, whatever the
\* later updates do.
C5_RespondsFirst ==
    [][\A q \in RunReqs :
          /\ (runResp[q] # RunStarted /\ runResp'[q] = RunStarted)
             => /\ runs'[runCtx'[q].run].status = "queued"
                /\ statusLog'[runCtx'[q].run] = <<"queued">>
          /\ (runCtx[q].run # 0 /\ runResp[q] # RunStarted)
             => statusLog'[runCtx[q].run] = <<"queued">>
          /\ runPc[q] = "done" => runResp'[q] = runResp[q]]_vars

\* A run whose request was answered with success and whose job then ended
\* with both status updates failed.
C5_Witness ==
    \E q \in RunReqs :
        /\ runResp[q] = RunStarted
        /\ timers[runCtx[q].run] = "failed"
        /\ runs[runCtx[q].run].status = "queued"

\* C6: in fetch-data, a request that lacks a credential cookie of the
\* provider it names gets 401 'Not authenticated', makes no provider API call
\* and gets no provider data.
C6_Credentials(app) ==
    CASE app = "salesforce" -> {"sf_access_token", "sf_instance_url"}
      [] app = "hubspot" -> {"hs_access_token", "hs_refresh_token"}
      [] app = "zoho" -> {"zoho_access_token"}
      [] app = "mixpanel" -> {"mixpanel_username", "mixpanel_secret"}
      [] app = "googleanalytics4" -> {"ga_4_access_token"}
      [] app = "airtable" -> {"airtable_access_token"}
      [] OTHER -> {}

C6_TokenMustExist ==
    (/\ req.route = "fetch-data"
     /\ req.user = "user"
     /\ req.app \in Providers
     /\ ~(C6_Credentials(req.app) \subseteq req.jar))
    => (/\ resp.returned
        /\ resp.status = 401
        /\ resp.body = "Not authenticated"
        /\ calls = {})

\* C7: in fetch-data, when the call to the provider's API fails the response
\* is an error body with an error status, never success: true; for HubSpot
\* it is the 'Error while accessing HubSpot API' response.
C7_VendorFailureIsAnError ==
    (/\ req.route = "fetch-data"
     /\ req.user = "user"
     /\ req.vendor # "ok"
     /\ calls # {})
    => (/\ resp.returned
        /\ resp.error
        /\ resp.status >= 400
        /\ resp.success # "true"
        /\ req.app = "hubspot" => resp.body = "Error while accessing HubSpot API")

\* C8: 'Show Data' (GET extractors/notion/data) for a database shows the
\* entries previously stored in Postgres for it by 'Save to DB', and nothing
\* when nothing was saved.
C8_ShowsStored ==
    (notionReq.op = "show" /\ notionResp.status = 200)
    => notionResp.records = {row.entry : row \in {x \in postgres : x.db = notionReq.db}}

\* C9: 'Save Issues to DB' sends a save request only when issues of that
\* repository were fetched earlier and the list is not empty; otherwise no
\* request is sent, 'No issues to save' is shown and the saving flag of the
\* repository is left as it was.
C9_SaveOnlyFetchedIssues ==
    lastSave.repo # "none"
    => IF lastSave.issues \in {JsArray(n) : n \in 1..MaxIssues}
       THEN lastSave.sent /\ lastSave.repo \in fetchedEver
       ELSE /\ ~lastSave.sent
            /\ lastSave.alert = "No issues to save"
            /\ lastSave.after = lastSave.before

\* Issues were fetched, none were found, and the click sent nothing.
C9_Witness ==
    /\ lastSave.repo # "none"
    /\ lastSave.issues = JsArray(0)
    /\ ~lastSave.sent
    /\ lastSave.repo \in fetchedEver

\* C10: the status of every run row follows only the order
\* queued -> in_progress -> completed, also with several runs in flight.
C10_StatusOrder ==
    \A run \in 1..Len(runs) :
        statusLog[run] \in {<<"queued">>, <<"queued", "in_progress">>,
                            <<"queued", "in_progress", "completed">>}

C12_Newer(i, user, pipeline) ==
    {j \in (i + 1)..Len(configs) :
        configs[j].user_id = user /\ configs[j].pipeline_id = pipeline}

C12_RunsOwnLatestConfig ==
    /\ [](\A run \in 1..Len(runs) :
            /\ runs[run].config_id \in 1..Len(configs)
            /\ configs[runs[run].config_id].user_id = runs[run].user_id)
    /\ [](\A q \in RunReqs :
            runPc[q] = "done"
            => /\ runCtx[q].user = "none" => runResp[q] = RunUnauthorized
               /\ (runCtx[q].user # "none" /\ runCtx[q].pipeline = 0)
                  => runResp[q] = RunNoPipeline
               /\ (runCtx[q].user # "none" /\ runCtx[q].pipeline # 0
                   /\ runCtx[q].config = 0)
                  => runResp[q] \in {RunNoConfig, RunFailed}
               /\ runResp[q].status \in {400, 401, 404} => runCtx[q].run = 0)
    /\ [][\A q \in RunReqs :
            /\ (runPc[q] = "idle" /\ runPc'[q] = "insert")
               => /\ runCtx'[q].user # "none"
                  /\ runCtx'[q].pipeline # 0
                  /\ runCtx'[q].config \in 1..Len(configs)
                  /\ configs[runCtx'[q].config].user_id = runCtx'[q].user
                  /\ configs[runCtx'[q].config].pipeline_id = runCtx'[q].pipeline
                  /\ C12_Newer(runCtx'[q].config, runCtx'[q].user,
                               runCtx'[q].pipeline) = {}
            /\ (runPc[q] = "idle" /\ runPc'[q] = "done") => runs' = runs
            /\ (runPc[q] = "insert" /\ runPc'[q] = "respond")
               => runs' = Append(runs, [config_id |-> runCtx[q].config,
                                        user_id |-> runCtx[q].user,
                                        status |-> "queued"])]_vars

\* A run row for the newer of two configs of the same user and pipeline.
C12_Witness ==
    \E q \in RunReqs :
        /\ runCtx[q].run # 0
        /\ runs[runCtx[q].run].config_id = 2
        /\ configs[1].user_id = configs[2].user_id
        /\ configs[1].pipeline_id = configs[2].pipeline_id

\* C13: GET extractors/config for a user and pipeline_id returns the config
\* that user created most recently for that pipeline, its config value equal
\* to the value posted (null when none was posted), {extraction: null} when
\* that user has none, and never a config of another user.
C13_Matching ==
    {i \in 1..Len(configs) :
        /\ configs[i].user_id = configResp.user
        /\ configs[i].pipeline_id = configResp.pipeline}

C13_ReturnsOwnLatest ==
    (configResp.route = "extractors/config GET" /\ configResp.status = 200)
    => IF C13_Matching = {}
       THEN configResp.extraction = 0
       ELSE /\ configResp.extraction \in C13_Matching
            /\ \A i \in C13_Matching : i <= configResp.extraction
            /\ configResp.config =
                 IF configs[configResp.extraction].posted = JsUndefined
                 THEN JsNull
                 ELSE configs[configResp.extraction].posted

\* The newer of two configs of one user and pipeline was returned, with the
\* empty string that was posted.
C13_Witness ==
    /\ configResp.route = "extractors/config GET"
    /\ configResp.status = 200
    /\ configResp.extraction = 2
    /\ 1 \in C13_Matching
    /\ configResp.config = JsString("")


\* C14 (as stated): after a successful reset for (connectionId, userId) the
\* store holds no source row of that user and connection, no link or document
\* row refers to such a source, and the connection's is_vectorized is false,
\* whatever the store held before (no source, one source, several sources).
C14_ResetClearsAll ==
    (resetPc = "done" /\ resetResp.status = DefaultStatus) =>
        /\ ~ \E r \in kbSources : r.user = resetCtx.user /\ r.conn = resetCtx.conn
        /\ (kbLinks \cup kbDocs) \cap resetCtx.matched = {}
        /\ vectorized[resetCtx.conn] = FALSE

\* C15: the reset deletes links, then documents, then the source row, so in
\* every state of a reset, a reset stopped at a failing step included, every
\* link row and every document row refers to a source row that still exists.
C15_NoDanglingRows ==
    (kbLinks \cup kbDocs) \subseteq {r.id : r \in kbSources}

\* a reset stopped by the failing document deletion: links gone, documents
\* and source still there
C15_Witness ==
    /\ resetPc = "done"
    /\ resetCtx.failed = "docs"
    /\ resetCtx.source \in kbDocs
    /\ resetCtx.source \notin kbLinks
    /\ \E r \in kbSources : r.id = resetCtx.source

ResetOrder == <<"lookup", "links", "docs", "source", "update">>

IsPrefixOf(steps, order) ==
    /\ Len(steps) <= Len(order)
    /\ \A i \in 1..Len(steps) : steps[i] = order[i]

\* C16: when a step of the reset fails (the lookup with an error other than
\* PGRST116, the deletion of links, of documents or of the source row, the
\* update), the failing step is the last one executed, is_vectorized is as it
\* was when the request came, what was deleted before stays deleted, and the
\* response is 500.
C16_FailureStops ==
    /\ (resetPc = "done" /\ resetCtx.failed # "none") =>
        /\ resetResp.status = 500
        /\ resetCtx.steps[Len(resetCtx.steps)] = resetCtx.failed
        /\ \/ IsPrefixOf(resetCtx.steps, ResetOrder)
           \/ resetCtx.steps = <<"lookup", "update">>
        /\ vectorized[resetCtx.conn] = resetCtx.flag
        /\ "links" \in {resetCtx.steps[i] : i \in 1..(Len(resetCtx.steps) - 1)}
              => resetCtx.source \notin kbLinks
        /\ "docs" \in {resetCtx.steps[i] : i \in 1..(Len(resetCtx.steps) - 1)}
              => resetCtx.source \notin kbDocs
        /\ "source" \in {resetCtx.steps[i] : i \in 1..(Len(resetCtx.steps) - 1)}
              => ~ \E r \in kbSources : r.id = resetCtx.source
    /\ (resetPc = "done" /\ resetResp.status = 500) => resetCtx.failed # "none"

\* the source deletion failed after links and documents were deleted, on a
\* connection that was vectorized
C16_Witness ==
    /\ resetPc = "done"
    /\ resetResp.status = 500
    /\ resetCtx.failed = "source"
    /\ resetCtx.flag = TRUE
    /\ \E r \in kbSources : r.id = resetCtx.source


C17_WitnessSameName ==
    /\ renamePc = "done"
    /\ renameCtx.old = renameCtx.new
    /\ renameCtx.content # "none"
    /\ renameResp.status = 500
    /\ bucket[renameCtx.old] = renameCtx.content


\* The part of C18 about the directory: when the response of a request that
\* created its directory is produced, the directory is gone unless the last
\* fs.rm failed.
C18_TempDirRemoved ==
    extractPc = "done" =>
        (extractCtx.dir \in tmpDirs => extractCtx.rmFailed)

\* C18 (as stated): for every extract-rar request with a parseable body, the
\* temporary directory is gone when the response is produced unless its
\* removal failed, and every request that does not succeed is answered with
\* 500 'Failed to process RAR file'.
C18_CleanupAndFailureResponse ==
    (extractPc = "done" /\ extractCtx.body # "invalid") =>
        /\ extractCtx.dir \in tmpDirs => extractCtx.rmFailed
        /\ \/ extractResp = Resp("s3/extract-rar", 200, FALSE, "true",
                                 "Extracted and uploaded")
           \/ extractResp = ExtractFailed


C19_Prefixes ==
    IF listReq.route = "s3/list-python-scripts" THEN PythonPrefixes ELSE JsonPrefixes

C19_Extensions ==
    IF listReq.route = "s3/list-python-scripts" THEN {".py", ".ipynb"} ELSE {".json"}

C19_EachKeyOnce ==
    /\ listResp.status = DefaultStatus
    /\ \A i, j \in 1..Len(listResp.objects) :
          listResp.objects[i].key = listResp.objects[j].key => i = j

\* C19 (as stated): the two listing handlers return each key at most once,
\* the entry kept for a key is the one of the earliest prefix, in search
\* order, that the key starts with, and a failed listing fails nothing.
C19_EarliestMatchingPrefix ==
    listReq.route \in {"s3/list-python-scripts", "s3/list-json-files"} =>
        /\ C19_EachKeyOnce
        /\ \A i \in 1..Len(listResp.objects) :
              \E n \in 1..Len(C19_Prefixes) :
                  /\ StartsWith(listResp.objects[i].key, C19_Prefixes[n])
                  /\ \A m \in 1..(n - 1) :
                        ~ StartsWith(listResp.objects[i].key, C19_Prefixes[m])
                  /\ listResp.objects[i].folder = FolderOf(C19_Prefixes[n])

\* C19 (amended): the two listing handlers return each key at most once; the
\* entry kept for a key is the one of the earliest prefix, in search order,
\* whose listing succeeded and returned the key; a failed listing is skipped
\* and the answer is 200 with every matching key some successful listing
\* returned.
C19_EarliestListedPrefix ==
    listReq.route \in {"s3/list-python-scripts", "s3/list-json-files"} =>
        /\ C19_EachKeyOnce
        /\ \A i \in 1..Len(listResp.objects) :
              \E n \in (1..Len(C19_Prefixes)) \ listReq.failed :
                  /\ StartsWith(listResp.objects[i].key, C19_Prefixes[n])
                  /\ \A m \in (1..(n - 1)) \ listReq.failed :
                        ~ StartsWith(listResp.objects[i].key, C19_Prefixes[m])
                  /\ listResp.objects[i].folder = FolderOf(C19_Prefixes[n])
        /\ \A k \in listBucket :
              (/\ EndsWith(k, C19_Extensions)
               /\ \E n \in (1..Len(C19_Prefixes)) \ listReq.failed :
                     StartsWith(k, C19_Prefixes[n]))
              => \E i \in 1..Len(listResp.objects) : listResp.objects[i].key = k

\* a key listed under 'notebooks/' and again under '', kept once as found in
\* 'notebooks/', while the listing of 'scripts/' failed
C19_Witness ==
    /\ listReq.route = "s3/list-python-scripts"
    /\ listReq.failed = {3}
    /\ <<"notebooks", "a.py">> \in listBucket
    /\ <<"scripts", "notebooks", "c.ipynb">> \in listBucket
    /\ \E i \in 1..Len(listResp.objects) :
          /\ listResp.objects[i].key = <<"notebooks", "a.py">>
          /\ listResp.objects[i].folder = "notebooks/"
    /\ \E i \in 1..Len(listResp.objects) :
          /\ listResp.objects[i].key = <<"scripts", "notebooks", "c.ipynb">>
          /\ listResp.objects[i].folder = "root"

C20_Ordered(entries) ==
    \A i, j \in 1..Len(entries) :
        (i < j /\ entries[i].type = entries[j].type)
            => LocaleLeq(entries[i].name, entries[j].name)

\* C20: the browse handler returns folders first, then files, each group
\* ordered by name; no file entry has the requested prefix as its key or a
\* key ending with '/'; an unauthenticated caller gets 401 and no S3 call is
\* made.
C20_BrowseOrder ==
    listReq.route = "s3/browse" =>
        /\ listReq.user = "none" => (listResp.status = 401 /\ listCalls = 0)
        /\ listResp.status = DefaultStatus =>
            /\ \A i, j \in 1..Len(listResp.objects) :
                  (listResp.objects[i].type = "folder"
                   /\ listResp.objects[j].type = "file") => i < j
            /\ C20_Ordered(listResp.objects)
            /\ \A i \in 1..Len(listResp.objects) :
                  listResp.objects[i].type = "file" =>
                      /\ listResp.objects[i].key # listReq.prefix
                      /\ LastSegment(listResp.objects[i].key) # ""
            /\ \A k \in listBucket :
                  (StartsWith(k, listReq.prefix) /\ Len(k) = Len(listReq.prefix)
                   /\ k # listReq.prefix)
                  => \E i \in 1..Len(listResp.objects) : listResp.objects[i].key = k

\* 'data/' browsed in a bucket that holds its folder marker, two folders and
\* two files which S3 lists in another order than their names'
C20_Witness ==
    /\ listReq.route = "s3/browse"
    /\ listReq.prefix = <<"data", "">>
    /\ listResp.status = DefaultStatus
    /\ <<"data", "">> \in listBucket
    /\ Len(listResp.objects) = 4
    /\ listResp.objects[1].name = "apps/"
    /\ listResp.objects[2].name = "Old/"
    /\ listResp.objects[3].name = "alpha.csv"
    /\ listResp.objects[4].name = "Zeta.csv"


C21_OK == {"ok object", "ok null", "ok not json"}

\* C21 (as stated): backend-status reports 'healthy' exactly when every
\* service is 'online', 'down' exactly when none is and 'degraded' otherwise;
\* a service is 'online' iff its health request returned an OK response,
\* 'error' iff it returned a response that is not OK, 'offline' iff the
\* request threw or timed out; the list is [Airflow, Sling] whatever order
\* the checks finished in.
C21_StatusOfEachService ==
    statusPc = "done" =>
        /\ statusResp.status = DefaultStatus
        /\ Len(statusResp.services) = 2
        /\ statusResp.services[1].name = "Airflow"
        /\ statusResp.services[2].name = "Sling"
        /\ \A i \in 1..2 :
              LET outcome == statusReq[ServiceNames[i]]
                  reported == statusResp.services[i].status
              IN /\ reported = "online" <=> outcome \in C21_OK
                 /\ reported = "error" <=> outcome = "not ok"
                 /\ reported = "offline" <=> outcome \in {"throws", "timeout"}
        /\ statusResp.overall = "healthy"
              <=> \A i \in 1..2 : statusResp.services[i].status = "online"
        /\ statusResp.overall = "down"
              <=> \A i \in 1..2 : statusResp.services[i].status # "online"
        /\ statusResp.overall \in {"healthy", "degraded", "down"}

\* The parts of C21 that do not depend on the body of an OK response: the
\* overall value, the order of the list, 'error' and the 'offline' of a
\* request that threw or timed out.
C21_OverallAndOrder ==
    statusPc = "done" =>
        /\ statusResp.status = DefaultStatus
        /\ statusResp.services[1].name = "Airflow"
        /\ statusResp.services[2].name = "Sling"
        /\ \A i \in 1..2 :
              LET outcome == statusReq[ServiceNames[i]]
                  reported == statusResp.services[i].status
              IN /\ reported = "online" => outcome \in C21_OK
                 /\ reported = "error" <=> outcome = "not ok"
                 /\ outcome \in {"throws", "timeout"} => reported = "offline"
        /\ statusResp.overall = "healthy"
              <=> \A i \in 1..2 : statusResp.services[i].status = "online"
        /\ statusResp.overall = "down"
              <=> \A i \in 1..2 : statusResp.services[i].status # "online"


\* C22: whenever an OAuth callback handler (Salesforce, HubSpot, Zoho, Meta
\* Ads) answers with an error response, that request has set or changed no
\* token cookie.
C22_ErrorSetsNoCookie ==
    (cbResp.returned /\ cbResp.error) => (cbSet = {} /\ cbJar = cbReq.jar)

\* C23: when the HubSpot or the Meta Ads callback is called with a state and
\* the token exchange succeeds, a connection row with conn_name = state exists
\* for the authenticated user when the redirect to the success page is
\* issued; without a state no row is inserted.
C23_RedirectMeansStored ==
    (cbReq.provider \in {"hubspot", "meta-ads"} /\ cbResp.status = 307) =>
        IF cbReq.state = "null"
        THEN cbRows = {}
        ELSE \E row \in cbRows :
                /\ row.conn_name = cbReq.state
                /\ row.user_id = "u1"
                /\ row.provider = cbReq.provider


\* C24: after a disconnect request for Salesforce, HubSpot or Zoho answers
\* 'disconnected', none of the cookies that the provider's OAuth callback set
\* remains.
C24_DisconnectClearsCallbackCookies ==
    (/\ req.route = "disconnect"
     /\ req.app \in {"salesforce", "hubspot", "zoho"}
     /\ resp.body = "disconnected") =>
        cookies \cap CallbackCookies(req.app) = {}

\* C24, for the providers other than Salesforce (holds).
C24_HubspotAndZohoCleared ==
    (/\ req.route = "disconnect"
     /\ req.app \in {"hubspot", "zoho"}
     /\ resp.body = "disconnected") =>
        cookies \cap CallbackCookies(req.app) = {}

====
